---- MODULE Spec2Model ----
(***************************************************************************)
(* Model of the Nexus profile service (routes/profile.routes.ts and        *)
(* middleware/auth.ts).  The persistent store is the state; every route    *)
(* handler is one action.  The Identity Gateway (auth service), the        *)
(* notification feed and the bearer token are inputs of the actions.       *)
(* req / resp / calls / seen record the last request, its response, the    *)
(* store and feed calls its handler made and the rows its look-ups found,  *)
(* so that the contract of a handler can be stated over the state it       *)
(* leaves behind.  rows and inflight belong to the interleaved view of the *)
(* handlers: rows lists the keys of the physical rows of the three         *)
(* uniquely keyed tables, inflight holds the requests whose handler is     *)
(* taken one store or gateway call at a time, each with what it has read   *)
(* so far, the call it is about to make and, once answered, its status.    *)
(* A handler taken as one step leaves both alone.                          *)
(***************************************************************************)
EXTENDS Integers, Sequences, FiniteSets, Bags, TLC

VARIABLES now, profiles, personalProjects, publications, experiences,
          badgeDefinitions, studentBadges, badgePolicies,
          badgeEligibilityCache, req, resp, calls, seen, rows, inflight

vars == <<now, profiles, personalProjects, publications, experiences,
          badgeDefinitions, studentBadges, badgePolicies,
          badgeEligibilityCache, req, resp, calls, seen, rows, inflight>>

-----------------------------------------------------------------------------
(* Bounds of the exploration *)

\* the clock runs from 0 to MaxTime minutes
MaxTime == 45
\* minutes the clock advances between two requests
TickStep == 15
\* StudentBadge rows awarded on top of the rows the store starts with
MaxNewAwards == 1
\* BadgeDefinition rows created on top of the catalog the store starts with
MaxNewDefinitions == 1
\* rows the three sub-entity tables (projects, publications, experiences)
\* hold together
MaxRows == 1

\* store writes that may be in flight at once
MaxInflight == 2

\* requests a behaviour takes one call at a time
MaxRequests == 2

-----------------------------------------------------------------------------
(* Program constants *)

\* 30 * 60 * 1000 ms, in minutes
CacheTtl == 30
DefaultRequiredBadges == 8
DefaultRequiredCategories == 4

-----------------------------------------------------------------------------
(* Value domains *)

\* a null / undefined / absent value of a string field
Null == "null"
Users == {"u1", "u2"}
Colleges == {"c1", "c2"}
RoleSets == {{}, {"STUDENT"}, {"FACULTY"}, {"DEPT_ADMIN"}, {"HEAD_ADMIN"},
             {"STUDENT", "FACULTY"}}
DisplayNames == {"Asha", "Ravi"}

\* JavaScript truthiness of a string-or-null value
Truthy(s) == s # Null /\ s # ""

\* Replies of the Identity Gateway to GET /v1/users/:id .
\*   error  : axios throws (status 0 = timeout or network error, else the
\*            non-2xx status)
\*   nodata : 2xx with an empty body                (response.data is falsy)
\*   nouser : 2xx with a body that carries no user  (response.data.user is
\*            null or undefined)
\*   user   : 2xx with data.user
GatewayReply(kind, status, displayName, collegeId) ==
    [kind |-> kind, status |-> status, displayName |-> displayName,
     collegeId |-> collegeId]
GatewayFailures ==
    {GatewayReply("error", s, Null, Null) : s \in {0, 404, 500}}
    \cup {GatewayReply("nodata", 200, Null, Null),
          GatewayReply("nouser", 200, Null, Null)}
GatewayUsers(names, colleges) ==
    {GatewayReply("user", 200, n, c) : n \in names, c \in colleges}

-----------------------------------------------------------------------------
(* The store at start-up *)

\* BadgeDefinition catalog; the id of a definition is its position.
SeedDefinitions ==
    << [category |-> "A", isActive |-> TRUE],
       [category |-> "B", isActive |-> TRUE],
       [category |-> "C", isActive |-> TRUE],
       [category |-> "D", isActive |-> TRUE],
       [category |-> "D", isActive |-> FALSE],
       [category |-> Null, isActive |-> TRUE] >>

SeedAward(badgeId) ==
    [studentId |-> "u1", badgeId |-> badgeId, awardedBy |-> "u2"]

\* u1 holds eight awards: seven of active definitions (categories A, B, C and
\* two without category) and one of an inactive definition of category D.
\* One further award decides whether the default thresholds (8, 4) are met.
SeedAwards ==
    << SeedAward(1), SeedAward(1), SeedAward(1), SeedAward(2), SeedAward(3),
       SeedAward(6), SeedAward(6), SeedAward(5) >>

EmptyProfile ==
    [name |-> Null, bio |-> Null, skills |-> <<>>, expertise |-> <<>>]

EmptyTable == [k \in {} |-> 0]

Init ==
    /\ now = 0
    /\ profiles = [u \in {"u1"} |-> EmptyProfile]
    /\ personalProjects = EmptyTable
    /\ publications = EmptyTable
    /\ experiences = EmptyTable
    /\ badgeDefinitions = SeedDefinitions
    /\ studentBadges = SeedAwards
    /\ badgePolicies = EmptyTable
    /\ badgeEligibilityCache = EmptyTable
    /\ req = [op |-> "none"]
    /\ resp = [status |-> 0]
    /\ calls = <<>>
    /\ seen = <<>>
    /\ rows = [profile |-> <<"u1">>, badgePolicy |-> <<>>,
               badgeEligibilityCache |-> <<>>]
    /\ inflight = EmptyBag

-----------------------------------------------------------------------------
(* Store primitives *)

\* prisma upsert / create on a table keyed by a unique column
Put(table, key, row) ==
    [k \in DOMAIN table \cup {key} |-> IF k = key THEN row ELSE table[k]]

\* prisma delete
Remove(table, key) == [k \in DOMAIN table \ {key} |-> table[k]]

\* the creating handler without its "Ensure profile exists" step
EnsureProfile_Skipped(table, userId) == table

\* profile.upsert({ update: {}, create: { userId, skills: [], expertise: [] } })
EnsureProfile(table, userId) ==
    IF userId \in DOMAIN table THEN table ELSE Put(table, userId, EmptyProfile)

-----------------------------------------------------------------------------
(* middleware/auth.ts *)

\* requireAuth: 0 when the request may proceed, else the status it replied
RequireAuth(auth) == IF auth = "valid" THEN 0 ELSE 401

AuthMessage(auth) ==
    IF auth = "missing" THEN "Missing authorization token"
    ELSE "Invalid or expired token"

\* the role test reduced to "the token carries some role"
HasRole_AnyRole(required, roles) == roles # {}

\* roles.some(role => user.roles.includes(role))
HasRole(required, roles) == \E role \in required : role \in roles

\* preHandler chain [requireAuth, requireRole(required)]: the status of the
\* reply a hook sent (the handler then never runs), or 0
PreHandler(auth, required, roles) ==
    IF RequireAuth(auth) # 0 THEN RequireAuth(auth)
    ELSE IF ~HasRole(required, roles) THEN 403
    ELSE 0

Rejected(status, auth) ==
    [status |-> status,
     message |-> IF status = 401 THEN AuthMessage(auth)
                 ELSE "Insufficient permissions"]

BadgeRoles == {"FACULTY", "DEPT_ADMIN", "HEAD_ADMIN"}
PublicationRoles == {"FACULTY", "HEAD_ADMIN"}
PolicyRoles == {"HEAD_ADMIN"}

\* What a handler leaves behind when a preHandler hook replied: the store as
\* it was, the hook's reply, no store call.
Refuse(request, status, auth) ==
    /\ req' = request
    /\ UNCHANGED <<rows, inflight>>
    /\ resp' = Rejected(status, auth)
    /\ seen' = <<>>
    /\ calls' = <<>>
    /\ UNCHANGED <<now, profiles, personalProjects, publications, experiences,
                   badgeDefinitions, studentBadges, badgePolicies,
                   badgeEligibilityCache>>

-----------------------------------------------------------------------------
(* The clock *)

Tick ==
    /\ now + TickStep <= MaxTime
    /\ now' = now + TickStep
    /\ UNCHANGED <<profiles, personalProjects, publications, experiences,
                   badgeDefinitions, studentBadges, badgePolicies,
                   badgeEligibilityCache, req, resp, calls, seen, rows,
                   inflight>>

-----------------------------------------------------------------------------
(* GET /v1/badges/eligibility/:userId *)

\* [...new Set(list)] : the distinct elements in order of first occurrence
RECURSIVE Dedupe(_)
Dedupe(list) ==
    IF list = <<>> THEN <<>>
    ELSE LET front == Dedupe(SubSeq(list, 1, Len(list) - 1))
             last == list[Len(list)]
         IN IF \E i \in DOMAIN front : front[i] = last THEN front
            ELSE Append(front, last)

\* list.map(f)
RECURSIVE MapCategory(_, _)
MapCategory(awards, catalog) ==
    IF awards = <<>> THEN <<>>
    ELSE <<catalog[Head(awards).badgeId].category>>
         \o MapCategory(Tail(awards), catalog)

\* studentBadge.findMany({ where: { studentId: userId } })
UserBadges(awards, userId) ==
    SelectSeq(awards, LAMBDA award : award.studentId = userId)

\* userBadges.filter(award => award.badge.isActive)
ActiveBadges(userBadges, catalog) ==
    SelectSeq(userBadges, LAMBDA award : catalog[award.badgeId].isActive)

\* [...new Set(activeBadges.map(award => award.badge.category).filter(Boolean))]
ActiveCategories(activeBadges, catalog) ==
    Dedupe(SelectSeq(MapCategory(activeBadges, catalog), Truthy))

\* policy?.eventCreationRequired || 8
RequiredBadges(policies, collegeId) ==
    IF collegeId \in DOMAIN policies
       /\ policies[collegeId].eventCreationRequired # 0
    THEN policies[collegeId].eventCreationRequired
    ELSE DefaultRequiredBadges

\* policy?.categoryDiversityMin || 4
RequiredCategories(policies, collegeId) ==
    IF collegeId \in DOMAIN policies
       /\ policies[collegeId].categoryDiversityMin # 0
    THEN policies[collegeId].categoryDiversityMin
    ELSE DefaultRequiredCategories

\* the conjunction of the two thresholds written as a disjunction
CanCreate_EitherThreshold(badgeCount, categoryCount, requiredBadges, requiredCategories) ==
    badgeCount >= requiredBadges \/ categoryCount >= requiredCategories

\* activeBadges.length >= requiredBadges && categories.length >= requiredCategories
CanCreate(badgeCount, categoryCount, requiredBadges, requiredCategories) ==
    badgeCount >= requiredBadges /\ categoryCount >= requiredCategories

\* the expiry comparison written with >= : a row is still used at expiresAt
CacheHit_AtExpiry(cache, userId, time) ==
    userId \in DOMAIN cache /\ cache[userId].expiresAt >= time

\* cached && cached.expiresAt > new Date()
CacheHit(cache, userId, time) ==
    userId \in DOMAIN cache /\ cache[userId].expiresAt > time

\* the college resolution falling back to a college when the user has none
ResolvedCollege_Default(gw) ==
    IF gw.kind = "user" /\ Truthy(gw.collegeId) THEN gw.collegeId ELSE "c1"

\* the college the handler resolved from the gateway reply (user?.collegeId)
ResolvedCollege(gw) == IF gw.kind = "user" THEN gw.collegeId ELSE Null

\* The handler body.  The gateway is called before the cache is read.
EligibilityOutcome(userId, gw) ==
    LET userBadges == UserBadges(studentBadges, userId)
        activeBadges == ActiveBadges(userBadges, badgeDefinitions)
        categories == ActiveCategories(activeBadges, badgeDefinitions)
        requiredBadges == RequiredBadges(badgePolicies, gw.collegeId)
        requiredCategories == RequiredCategories(badgePolicies, gw.collegeId)
        canCreate == CanCreate(Len(activeBadges), Len(categories),
                               requiredBadges, requiredCategories)
        cached == IF userId \in DOMAIN badgeEligibilityCache
                  THEN <<badgeEligibilityCache[userId]>> ELSE <<>>
        row == [canCreate |-> canCreate, badgeCount |-> Len(activeBadges),
                categories |-> categories, lastChecked |-> now,
                expiresAt |-> now + CacheTtl]
    IN  IF gw.kind = "error"
        THEN [cache |-> badgeEligibilityCache,
              resp |-> [status |-> 500,
                        error |-> "Failed to check badge eligibility",
                        canCreate |-> FALSE],
              log |-> <<>>, seen |-> <<>>]
        ELSE IF ~Truthy(ResolvedCollege(gw))
        THEN [cache |-> badgeEligibilityCache,
              resp |-> [status |-> 400,
                        error |-> "User college information not found",
                        canCreate |-> FALSE, missing |-> <<>>],
              log |-> <<>>, seen |-> <<>>]
        ELSE IF CacheHit(badgeEligibilityCache, userId, now)
        THEN [cache |-> badgeEligibilityCache,
              resp |-> [status |-> 200,
                        canCreate |-> badgeEligibilityCache[userId].canCreate,
                        badgeCount |-> badgeEligibilityCache[userId].badgeCount,
                        categories |-> badgeEligibilityCache[userId].categories,
                        lastChecked |->
                            badgeEligibilityCache[userId].lastChecked],
              log |-> <<"badgeEligibilityCache.findUnique">>,
              seen |-> cached]
        ELSE [cache |-> Put(badgeEligibilityCache, userId, row),
              resp |-> [status |-> 200, canCreate |-> canCreate,
                        badgeCount |-> Len(activeBadges),
                        requiredBadges |-> requiredBadges,
                        categories |-> categories,
                        requiredCategories |-> requiredCategories,
                        lastChecked |-> now],
              log |-> <<"badgeEligibilityCache.findUnique",
                        "badgePolicy.findUnique", "studentBadge.findMany",
                        "badgeEligibilityCache.upsert">>,
              seen |-> cached]

CheckEligibility(auth, userId, gw) ==
    LET request == [op |-> "eligibility", auth |-> auth, userId |-> userId,
                    gw |-> gw]
    IN  IF RequireAuth(auth) # 0
        THEN Refuse(request, RequireAuth(auth), auth)
        ELSE LET out == EligibilityOutcome(userId, gw)
             IN  /\ req' = request
                 /\ UNCHANGED <<rows, inflight>>
                 /\ resp' = out.resp
                 /\ seen' = out.seen
                 /\ calls' = out.log
                 /\ badgeEligibilityCache' = out.cache
                 /\ UNCHANGED <<now, profiles, personalProjects,
                                publications, experiences, badgeDefinitions,
                                studentBadges, badgePolicies>>

-----------------------------------------------------------------------------
(* POST /v1/badges/award *)

\* Outcomes of createBadgeAwardPost: the feature flag is off (returns without
\* a call), the feed accepted the post, the feed answered non-2xx, the fetch
\* itself failed.
PostOutcomes == {"disabled", "created", "non2xx", "neterr"}

\* createBadgeAwardPost throws (it rethrows what it caught)
PostThrows(post) == post \in {"non2xx", "neterr"}

\* the handler without the try/catch around createBadgeAwardPost: a failed
\* post surfaces as a 500
AwardReplyStatus_PostFailureSurfaces(post) ==
    IF PostThrows(post) THEN 500 ELSE 201

\* The status the handler sends after the award row is stored: the
\* try/catch around createBadgeAwardPost swallows its failure.
AwardReplyStatus(post) == 201

\* the catch clause answering 404 for every failure of the call
AwardUserCheck_AlwaysNotFound(gw) ==
    IF gw.kind \in {"error", "nodata"} THEN 404 ELSE 0

\* What the user lookup of the award handler decides: 404, 500, or 0 when the
\* handler goes on to store the award.
AwardUserCheck(gw) ==
    IF gw.kind = "error" THEN (IF gw.status = 404 THEN 404 ELSE 500)
    ELSE IF gw.kind = "nodata" THEN 404
    ELSE 0

\* the award stored as an upsert per (student, badge): a repeated award
\* overwrites the row that is there
CreateStudentBadge_UpsertPerBadge(awards, row) ==
    IF \E i \in DOMAIN awards : /\ awards[i].studentId = row.studentId
                                /\ awards[i].badgeId = row.badgeId
    THEN [i \in DOMAIN awards |->
            IF /\ awards[i].studentId = row.studentId
               /\ awards[i].badgeId = row.badgeId
            THEN row ELSE awards[i]]
    ELSE Append(awards, row)

\* studentBadge.create({ data }) : a new row; the id of a row is its position
CreateStudentBadge(awards, row) == Append(awards, row)

\* body: [userId, badgeDefinitionId]; caller: the token's subject
AwardBadge(auth, roles, caller, body, gw, post) ==
    LET request == [op |-> "award", auth |-> auth, roles |-> roles,
                    caller |-> caller, body |-> body, gw |-> gw,
                    post |-> post]
        gate == PreHandler(auth, BadgeRoles, roles)
        check == AwardUserCheck(gw)
        known == body.badgeDefinitionId \in DOMAIN badgeDefinitions
        row == [studentId |-> body.userId, badgeId |-> body.badgeDefinitionId,
                awardedBy |-> caller]
        unchanged == <<now, personalProjects, publications, experiences,
                       badgeDefinitions, badgePolicies, badgeEligibilityCache>>
    IN  IF gate # 0 THEN Refuse(request, gate, auth)
        ELSE IF check # 0
        THEN /\ req' = request
             /\ UNCHANGED <<rows, inflight>>
             /\ resp' = [status |-> check,
                         error |-> IF check = 404 THEN "User not found"
                                   ELSE "Failed to verify user"]
             /\ seen' = <<>>
             /\ calls' = <<>>
             /\ UNCHANGED <<profiles, studentBadges>>
             /\ UNCHANGED unchanged
        ELSE IF ~known
        \* studentBadge.create violates the foreign key and throws; nothing
        \* catches it, the framework answers 500.  The profile upsert before
        \* it is not undone.
        THEN /\ req' = request
             /\ UNCHANGED <<rows, inflight>>
             /\ resp' = [status |-> 500, error |-> "Internal Server Error"]
             /\ seen' = <<>>
             /\ calls' = <<"profile.upsert", "studentBadge.create">>
             /\ profiles' = EnsureProfile(profiles, body.userId)
             /\ UNCHANGED studentBadges
             /\ UNCHANGED unchanged
        ELSE /\ Len(studentBadges) < Len(SeedAwards) + MaxNewAwards
             /\ req' = request
             /\ UNCHANGED <<rows, inflight>>
             /\ profiles' = EnsureProfile(profiles, body.userId)
             /\ studentBadges' = CreateStudentBadge(studentBadges, row)
             /\ resp' = [status |-> AwardReplyStatus(post),
                         badge |-> [id |-> Len(studentBadges) + 1,
                                    row |-> row]]
             /\ seen' = <<>>
             /\ calls' = <<"profile.upsert", "studentBadge.create">>
                         \o (IF post = "disabled" THEN <<>>
                             ELSE <<"feed.post">>)
             /\ UNCHANGED unchanged

-----------------------------------------------------------------------------
(* POST /v1/badge-definitions *)

\* String.prototype.trim on the category values the requests carry
Trim(s) == IF s = " " THEN "" ELSE s

\* if (data.category && data.category.trim()) createData.category = ...
StoredCategory(category) ==
    IF Truthy(category) /\ Truthy(Trim(category)) THEN category ELSE Null

\* body: [category]
CreateBadgeDefinition(auth, roles, caller, body) ==
    LET request == [op |-> "createBadgeDefinition", auth |-> auth,
                    roles |-> roles, caller |-> caller, body |-> body]
        gate == PreHandler(auth, BadgeRoles, roles)
        row == [category |-> StoredCategory(body.category), isActive |-> TRUE]
    IN  IF gate # 0 THEN Refuse(request, gate, auth)
        ELSE /\ Len(badgeDefinitions) < Len(SeedDefinitions) + MaxNewDefinitions
             /\ req' = request
             /\ UNCHANGED <<rows, inflight>>
             /\ badgeDefinitions' = Append(badgeDefinitions, row)
             /\ resp' = [status |-> 201,
                         badgeDefinition |-> [id |-> Len(badgeDefinitions) + 1,
                                              row |-> row]]
             /\ seen' = <<>>
             /\ calls' = <<"badgeDefinition.create">>
             /\ UNCHANGED <<now, profiles, personalProjects, publications,
                            experiences, studentBadges, badgePolicies,
                            badgeEligibilityCache>>

-----------------------------------------------------------------------------
(* POST /v1/badges/policies *)

\* body: [collegeId, eventCreationRequired, categoryDiversityMin]
CreatePolicy(auth, roles, body) ==
    LET request == [op |-> "createPolicy", auth |-> auth, roles |-> roles,
                    body |-> body]
        gate == PreHandler(auth, PolicyRoles, roles)
        row == [eventCreationRequired |-> body.eventCreationRequired,
                categoryDiversityMin |-> body.categoryDiversityMin]
        taken == body.collegeId \in DOMAIN badgePolicies
    IN  IF gate # 0 THEN Refuse(request, gate, auth)
        ELSE /\ req' = request
             /\ UNCHANGED <<rows, inflight>>
             \* badgePolicy.create on a collegeId that has a row violates the
             \* unique constraint and throws; the framework answers 500
             /\ badgePolicies' = IF taken THEN badgePolicies
                                 ELSE Put(badgePolicies, body.collegeId, row)
             /\ resp' = IF taken
                        THEN [status |-> 500, error |-> "Internal Server Error"]
                        ELSE [status |-> 201, policy |-> row]
             /\ seen' = <<>>
             /\ calls' = <<"badgePolicy.create">>
             /\ UNCHANGED <<now, profiles, personalProjects, publications,
                            experiences, badgeDefinitions, studentBadges,
                            badgeEligibilityCache>>

-----------------------------------------------------------------------------
(* Sub-entities: personal projects, publications, experiences *)

\* Row ids stand for cuids.  Requests name ids of the pool or 0, an id no row
\* ever has; a create takes a free id of the pool.
RowIds == 1 .. MaxRows
RequestIds == RowIds \cup {0}

RowCount ==
    Cardinality(DOMAIN personalProjects) + Cardinality(DOMAIN publications)
    + Cardinality(DOMAIN experiences)

FreeIds(table) == RowIds \ DOMAIN table

\* the table with the guard of findFirst({ where: { id, profile: { userId } } })
\* dropped: any row of that id counts as the caller's
OwnedRow_AnyOwner(table, id, userId) == id \in DOMAIN table

\* findFirst({ where: { id, profile: { userId } } }) finds a row
OwnedRow(table, id, userId) ==
    id \in DOMAIN table /\ table[id].userId = userId

\* !experience || experience.profile.userId !== userId
ExperienceDenied(table, id, userId) ==
    id \notin DOMAIN table \/ table[id].userId # userId

Found(table, id) == IF id \in DOMAIN table THEN <<table[id]>> ELSE <<>>

\* ---- POST /v1/profiles/me/projects
CreateProject(auth, caller, body) ==
    LET request == [op |-> "createProject", auth |-> auth, caller |-> caller,
                    body |-> body]
        gate == RequireAuth(auth)
    IN  IF gate # 0 THEN Refuse(request, gate, auth)
        ELSE \E id \in FreeIds(personalProjects) :
             LET row == [userId |-> caller, title |-> body.title]
             IN  /\ RowCount < MaxRows
                 /\ req' = request
                 /\ UNCHANGED <<rows, inflight>>
                 /\ profiles' = EnsureProfile(profiles, caller)
                 /\ personalProjects' = Put(personalProjects, id, row)
                 /\ resp' = [status |-> 201,
                             project |-> [id |-> id, row |-> row]]
                 /\ seen' = <<>>
                 /\ calls' = <<"profile.upsert", "personalProject.create">>
                 /\ UNCHANGED <<now, publications, experiences,
                                badgeDefinitions, studentBadges,
                                badgePolicies, badgeEligibilityCache>>

\* ---- PUT /v1/profiles/me/projects/:projectId
UpdateProject(auth, caller, id, body) ==
    LET request == [op |-> "updateProject", auth |-> auth, caller |-> caller,
                    id |-> id, body |-> body]
        gate == RequireAuth(auth)
        owned == OwnedRow(personalProjects, id, caller)
        row == [userId |-> personalProjects[id].userId, title |-> body.title]
    IN  IF gate # 0 THEN Refuse(request, gate, auth)
        ELSE /\ req' = request
             /\ UNCHANGED <<rows, inflight>>
             /\ seen' = IF owned THEN Found(personalProjects, id) ELSE <<>>
             /\ personalProjects' = IF owned
                                    THEN Put(personalProjects, id, row)
                                    ELSE personalProjects
             /\ resp' = IF owned
                        THEN [status |-> 200,
                              project |-> [id |-> id, row |-> row]]
                        ELSE [status |-> 404, message |-> "Project not found"]
             /\ calls' = IF owned
                         THEN <<"personalProject.findFirst",
                                "personalProject.update">>
                         ELSE <<"personalProject.findFirst">>
             /\ UNCHANGED <<now, profiles, publications, experiences,
                            badgeDefinitions, studentBadges, badgePolicies,
                            badgeEligibilityCache>>

\* ---- DELETE /v1/profiles/me/projects/:projectId
DeleteProject(auth, caller, id) ==
    LET request == [op |-> "deleteProject", auth |-> auth, caller |-> caller,
                    id |-> id]
        gate == RequireAuth(auth)
        owned == OwnedRow(personalProjects, id, caller)
    IN  IF gate # 0 THEN Refuse(request, gate, auth)
        ELSE /\ req' = request
             /\ UNCHANGED <<rows, inflight>>
             /\ seen' = IF owned THEN Found(personalProjects, id) ELSE <<>>
             /\ personalProjects' = IF owned THEN Remove(personalProjects, id)
                                    ELSE personalProjects
             /\ resp' = IF owned THEN [status |-> 204]
                        ELSE [status |-> 404, message |-> "Project not found"]
             /\ calls' = IF owned
                         THEN <<"personalProject.findFirst",
                                "personalProject.delete">>
                         ELSE <<"personalProject.findFirst">>
             /\ UNCHANGED <<now, profiles, publications, experiences,
                            badgeDefinitions, studentBadges, badgePolicies,
                            badgeEligibilityCache>>

\* ---- POST /v1/profiles/me/publications
CreatePublication(auth, roles, caller, body) ==
    LET request == [op |-> "createPublication", auth |-> auth,
                    roles |-> roles, caller |-> caller, body |-> body]
        gate == PreHandler(auth, PublicationRoles, roles)
    IN  IF gate # 0 THEN Refuse(request, gate, auth)
        ELSE \E id \in FreeIds(publications) :
             LET row == [userId |-> caller, title |-> body.title]
             IN  /\ RowCount < MaxRows
                 /\ req' = request
                 /\ UNCHANGED <<rows, inflight>>
                 /\ profiles' = EnsureProfile(profiles, caller)
                 /\ publications' = Put(publications, id, row)
                 /\ resp' = [status |-> 201,
                             publication |-> [id |-> id, row |-> row]]
                 /\ seen' = <<>>
                 /\ calls' = <<"profile.upsert", "publication.create">>
                 /\ UNCHANGED <<now, personalProjects, experiences,
                                badgeDefinitions, studentBadges,
                                badgePolicies, badgeEligibilityCache>>

\* ---- PUT /v1/profiles/me/publications/:publicationId
UpdatePublication(auth, roles, caller, id, body) ==
    LET request == [op |-> "updatePublication", auth |-> auth,
                    roles |-> roles, caller |-> caller, id |-> id,
                    body |-> body]
        gate == PreHandler(auth, PublicationRoles, roles)
        owned == OwnedRow(publications, id, caller)
        row == [userId |-> publications[id].userId, title |-> body.title]
    IN  IF gate # 0 THEN Refuse(request, gate, auth)
        ELSE /\ req' = request
             /\ UNCHANGED <<rows, inflight>>
             /\ seen' = IF owned THEN Found(publications, id) ELSE <<>>
             /\ publications' = IF owned THEN Put(publications, id, row)
                                ELSE publications
             /\ resp' = IF owned
                        THEN [status |-> 200,
                              publication |-> [id |-> id, row |-> row]]
                        ELSE [status |-> 404,
                              message |-> "Publication not found"]
             /\ calls' = IF owned
                         THEN <<"publication.findFirst", "publication.update">>
                         ELSE <<"publication.findFirst">>
             /\ UNCHANGED <<now, profiles, personalProjects, experiences,
                            badgeDefinitions, studentBadges, badgePolicies,
                            badgeEligibilityCache>>

\* ---- DELETE /v1/profiles/me/publications/:publicationId
DeletePublication(auth, roles, caller, id) ==
    LET request == [op |-> "deletePublication", auth |-> auth,
                    roles |-> roles, caller |-> caller, id |-> id]
        gate == PreHandler(auth, PublicationRoles, roles)
        owned == OwnedRow(publications, id, caller)
    IN  IF gate # 0 THEN Refuse(request, gate, auth)
        ELSE /\ req' = request
             /\ UNCHANGED <<rows, inflight>>
             /\ seen' = IF owned THEN Found(publications, id) ELSE <<>>
             /\ publications' = IF owned THEN Remove(publications, id)
                                ELSE publications
             /\ resp' = IF owned
                        THEN [status |-> 204,
                              message |-> "Publication deleted successfully"]
                        ELSE [status |-> 404,
                              message |-> "Publication not found"]
             /\ calls' = IF owned
                         THEN <<"publication.findFirst", "publication.delete">>
                         ELSE <<"publication.findFirst">>
             /\ UNCHANGED <<now, profiles, personalProjects, experiences,
                            badgeDefinitions, studentBadges, badgePolicies,
                            badgeEligibilityCache>>

\* ---- POST /v1/profile/experiences
CreateExperience(auth, caller, body) ==
    LET request == [op |-> "createExperience", auth |-> auth,
                    caller |-> caller, body |-> body]
        gate == RequireAuth(auth)
    IN  IF gate # 0 THEN Refuse(request, gate, auth)
        ELSE \E id \in FreeIds(experiences) :
             LET row == [userId |-> caller, title |-> body.title]
             IN  /\ RowCount < MaxRows
                 /\ req' = request
                 /\ UNCHANGED <<rows, inflight>>
                 /\ profiles' = EnsureProfile(profiles, caller)
                 /\ experiences' = Put(experiences, id, row)
                 /\ resp' = [status |-> 200,
                             experience |-> [id |-> id, row |-> row]]
                 /\ seen' = <<>>
                 /\ calls' = <<"profile.upsert", "experience.create">>
                 /\ UNCHANGED <<now, personalProjects, publications,
                                badgeDefinitions, studentBadges,
                                badgePolicies, badgeEligibilityCache>>

\* ---- PUT /v1/profile/experiences/:id
UpdateExperience(auth, caller, id, body) ==
    LET request == [op |-> "updateExperience", auth |-> auth,
                    caller |-> caller, id |-> id, body |-> body]
        gate == RequireAuth(auth)
        owned == OwnedRow(experiences, id, caller)
        row == [userId |-> experiences[id].userId, title |-> body.title]
    IN  IF gate # 0 THEN Refuse(request, gate, auth)
        ELSE /\ req' = request
             /\ UNCHANGED <<rows, inflight>>
             /\ seen' = IF owned THEN Found(experiences, id) ELSE <<>>
             /\ experiences' = IF owned THEN Put(experiences, id, row)
                               ELSE experiences
             /\ resp' = IF owned
                        THEN [status |-> 200,
                              experience |-> [id |-> id, row |-> row]]
                        ELSE [status |-> 404,
                              message |->
                                "Experience not found or access denied"]
             /\ calls' = IF owned
                         THEN <<"experience.findFirst", "experience.update">>
                         ELSE <<"experience.findFirst">>
             /\ UNCHANGED <<now, profiles, personalProjects, publications,
                            badgeDefinitions, studentBadges, badgePolicies,
                            badgeEligibilityCache>>

\* ---- DELETE /v1/profile/experiences/:id
DeleteExperience(auth, caller, id) ==
    LET request == [op |-> "deleteExperience", auth |-> auth,
                    caller |-> caller, id |-> id]
        gate == RequireAuth(auth)
        denied == ExperienceDenied(experiences, id, caller)
    IN  IF gate # 0 THEN Refuse(request, gate, auth)
        ELSE /\ req' = request
             /\ UNCHANGED <<rows, inflight>>
             /\ seen' = Found(experiences, id)
             /\ experiences' = IF denied THEN experiences
                               ELSE Remove(experiences, id)
             /\ resp' = IF denied
                        THEN [status |-> 404,
                              message |-> "Experience not found"]
                        ELSE [status |-> 200,
                              message |-> "Experience deleted successfully"]
             /\ calls' = IF denied THEN <<"experience.findUnique">>
                         ELSE <<"experience.findUnique", "experience.delete">>
             /\ UNCHANGED <<now, profiles, personalProjects, publications,
                            badgeDefinitions, studentBadges, badgePolicies,
                            badgeEligibilityCache>>

-----------------------------------------------------------------------------
(* GET /v1/profile/me and GET /v1/profile/user/:userId *)

\* a || b on strings
Or(a, b) == IF Truthy(a) THEN a ELSE b

\* userInfo?.displayName : userInfo stays null when the fetch throws and is
\* undefined when the body carries no user
DisplayNameOf(gw) == IF gw.kind = "user" THEN gw.displayName ELSE Null

\* userInfo?.collegeId
CollegeIdOf(gw) == IF gw.kind = "user" THEN gw.collegeId ELSE Null

\* Replies of the gateway to GET /v1/colleges/:id : "error" when axios throws,
\* else the name the body carries (Null when it carries none)
CollegeReplies == {"error", Null, "Nexus College"}

\* collegeName: fetched only when userInfo.collegeId is set; a failure of the
\* fetch is caught and leaves it null
CollegeNameOf(gw, college) ==
    IF Truthy(CollegeIdOf(gw)) /\ college # "error" THEN Or(college, Null)
    ELSE Null

\* the backfill condition without its test of userInfo: an unnamed or missing
\* profile is written even when the gateway gave nothing
ShouldBackfill_WithoutIdentity(displayName, initialProfile) ==
    initialProfile = <<>> \/ ~Truthy(initialProfile[1].name)

\* the backfill condition without its test of the stored name: the gateway's
\* display name is written on every read
ShouldBackfill_Always(displayName, initialProfile) == Truthy(displayName)

\* userInfo?.displayName && (!initialProfile || !initialProfile.name)
ShouldBackfill(displayName, initialProfile) ==
    /\ Truthy(displayName)
    /\ (initialProfile = <<>> \/ ~Truthy(initialProfile[1].name))

\* profile.upsert({ update: { name }, create: { userId, name, skills: [],
\* expertise: [] } })
Backfilled(table, userId, displayName) ==
    IF userId \in DOMAIN table
    THEN Put(table, userId, [table[userId] EXCEPT !.name = displayName])
    ELSE Put(table, userId, [EmptyProfile EXCEPT !.name = displayName])

\* the response view: stored fields first, identity fields as fallback
EnhancedProfile(userId, profile, gw, collegeName) ==
    [userId |-> userId,
     name |-> Or(Or(IF profile = <<>> THEN Null ELSE profile[1].name,
                    DisplayNameOf(gw)), ""),
     displayName |-> Or(DisplayNameOf(gw), ""),
     bio |-> Or(IF profile = <<>> THEN Null ELSE profile[1].bio, ""),
     skills |-> IF profile = <<>> THEN <<>> ELSE profile[1].skills,
     collegeName |-> collegeName,
     collegeId |-> Or(CollegeIdOf(gw), "")]

\* The body shared by the two enrichment reads.
EnrichedRead(request, userId, gw, college) ==
    LET initialProfile == Found(profiles, userId)
        backfill == ShouldBackfill(DisplayNameOf(gw), initialProfile)
        table == IF backfill
                 THEN Backfilled(profiles, userId, DisplayNameOf(gw))
                 ELSE profiles
        profile == Found(table, userId)
        fetches == IF Truthy(CollegeIdOf(gw))
                   THEN <<"gateway.user", "gateway.college">>
                   ELSE <<"gateway.user">>
    IN  /\ req' = request
        /\ UNCHANGED <<rows, inflight>>
        /\ profiles' = table
        /\ resp' = [status |-> 200,
                    profile |-> EnhancedProfile(userId, profile, gw,
                                                CollegeNameOf(gw, college))]
        /\ seen' = initialProfile
        /\ calls' = <<"profile.findUnique">> \o fetches
                    \o (IF backfill THEN <<"profile.upsert">> ELSE <<>>)
        /\ UNCHANGED <<now, personalProjects, publications, experiences,
                       badgeDefinitions, studentBadges, badgePolicies,
                       badgeEligibilityCache>>

GetMyProfile(auth, caller, gw, college) ==
    LET request == [op |-> "getMyProfile", auth |-> auth, userId |-> caller,
                    gw |-> gw, college |-> college]
    IN  IF RequireAuth(auth) # 0
        THEN Refuse(request, RequireAuth(auth), auth)
        ELSE EnrichedRead(request, caller, gw, college)

GetUserProfile(auth, userId, gw, college) ==
    LET request == [op |-> "getUserProfile", auth |-> auth,
                    userId |-> userId, gw |-> gw, college |-> college]
    IN  IF RequireAuth(auth) # 0
        THEN Refuse(request, RequireAuth(auth), auth)
        ELSE EnrichedRead(request, userId, gw, college)

-----------------------------------------------------------------------------
(* PUT /v1/profile/me *)

ProfileFields == {"name", "bio", "skills", "expertise"}

\* updateProfileSchema: name and displayName are z.string().min(1)
ValidUpdate(body) ==
    /\ "name" \in DOMAIN body => body.name # ""
    /\ "displayName" \in DOMAIN body => body.displayName # ""

\* const { displayName, avatarUrl, year, department, ...profileData } = data
ProfileData(body) == [f \in DOMAIN body \cap ProfileFields |-> body[f]]

\* the update written as a full replace: a field the body omits is reset
Merged_FullReplace(row, data) ==
    [f \in DOMAIN row |-> IF f \in DOMAIN data THEN data[f] ELSE EmptyProfile[f]]

\* update: profileData -- only the fields the body carries are written
Merged(row, data) ==
    [f \in DOMAIN row |-> IF f \in DOMAIN data THEN data[f] ELSE row[f]]

\* body: a record of the fields the request carries; userUpdate: the outcome
\* of the PUT to the auth service, made when the body carries displayName
UpdateMyProfile(auth, caller, body, userUpdate) ==
    LET request == [op |-> "updateMyProfile", auth |-> auth,
                    caller |-> caller, body |-> body,
                    userUpdate |-> userUpdate]
        gate == RequireAuth(auth)
        forwards == "displayName" \in DOMAIN body /\ Truthy(body.displayName)
        base == IF caller \in DOMAIN profiles THEN profiles[caller]
                ELSE EmptyProfile
        row == Merged(base, ProfileData(body))
        unchanged == <<now, personalProjects, publications, experiences,
                       badgeDefinitions, studentBadges, badgePolicies,
                       badgeEligibilityCache>>
    IN  IF gate # 0 THEN Refuse(request, gate, auth)
        ELSE IF ~ValidUpdate(body)
        THEN /\ req' = request
             /\ UNCHANGED <<rows, inflight>>
             /\ resp' = [status |-> 400, message |-> "Validation error"]
             /\ seen' = <<>>
             /\ calls' = <<>>
             /\ UNCHANGED profiles
             /\ UNCHANGED unchanged
        ELSE IF forwards /\ userUpdate = "error"
        THEN /\ req' = request
             /\ UNCHANGED <<rows, inflight>>
             /\ resp' = [status |-> 500,
                         message |-> "Failed to update user data"]
             /\ seen' = <<>>
             /\ calls' = <<"gateway.updateUser">>
             /\ UNCHANGED profiles
             /\ UNCHANGED unchanged
        ELSE /\ req' = request
             /\ UNCHANGED <<rows, inflight>>
             /\ profiles' = Put(profiles, caller, row)
             /\ resp' = [status |-> 200, profile |-> row]
             /\ seen' = <<>>
             /\ calls' = (IF forwards THEN <<"gateway.updateUser">> ELSE <<>>)
                         \o <<"profile.upsert">>
             /\ UNCHANGED unchanged

\* PUT /v1/profiles/me : the body is written as it is (update: data). body
\* carries Profile fields only.
UpsertMyProfile(auth, caller, body) ==
    LET request == [op |-> "upsertMyProfile", auth |-> auth,
                    caller |-> caller, body |-> body]
        gate == RequireAuth(auth)
        base == IF caller \in DOMAIN profiles THEN profiles[caller]
                ELSE EmptyProfile
        row == Merged(base, body)
        unchanged == <<now, personalProjects, publications, experiences,
                       badgeDefinitions, studentBadges, badgePolicies,
                       badgeEligibilityCache>>
    IN  IF gate # 0 THEN Refuse(request, gate, auth)
        ELSE IF ~ValidUpdate(body)
        THEN /\ req' = request
             /\ UNCHANGED <<rows, inflight>>
             /\ resp' = [status |-> 400, message |-> "Validation error"]
             /\ seen' = <<>>
             /\ calls' = <<>>
             /\ UNCHANGED profiles
             /\ UNCHANGED unchanged
        ELSE /\ req' = request
             /\ UNCHANGED <<rows, inflight>>
             /\ profiles' = Put(profiles, caller, row)
             /\ resp' = [status |-> 200, profile |-> row]
             /\ seen' = <<>>
             /\ calls' = <<"profile.upsert">>
             /\ UNCHANGED unchanged

-----------------------------------------------------------------------------
(* The skills sub-resource: PUT / POST /v1/profile/me/skills and
   DELETE /v1/profile/me/skills/:skill *)

\* A skill is a string, modelled as the sequence of its characters.
MaxSkills == 50
MaxSkillLength == 100

\* String.prototype.toLowerCase on the letters the requests carry
LowerOf == [G |-> "g", O |-> "o", R |-> "r"]
ToLowerCase(s) ==
    [i \in DOMAIN s |-> IF s[i] \in DOMAIN LowerOf THEN LowerOf[s[i]] ELSE s[i]]

RECURSIVE TrimStart(_)
TrimStart(s) ==
    IF s # <<>> /\ Head(s) = " " THEN TrimStart(Tail(s)) ELSE s

RECURSIVE TrimEnd(_)
TrimEnd(s) ==
    IF s # <<>> /\ s[Len(s)] = " " THEN TrimEnd(SubSeq(s, 1, Len(s) - 1))
    ELSE s

\* String.prototype.trim
TrimSkill(s) == TrimEnd(TrimStart(s))

\* the escape sequences the requests carry and the character each stands for
PercentDecoded == [x \in {<<"2", "0">>, <<"2", "5">>, <<"6", "F">>} |->
                     IF x = <<"2", "0">> THEN " "
                     ELSE IF x = <<"2", "5">> THEN "%" ELSE "o"]

\* decodeURIComponent: every %XX is replaced by its character; a % that is not
\* followed by two hexadecimal digits throws URIError (ok = FALSE)
RECURSIVE DecodeURIComponent(_)
DecodeURIComponent(s) ==
    IF s = <<>> THEN [ok |-> TRUE, value |-> <<>>]
    ELSE IF Head(s) # "%"
    THEN LET rest == DecodeURIComponent(Tail(s))
         IN  [ok |-> rest.ok, value |-> <<Head(s)>> \o rest.value]
    ELSE IF Len(s) >= 3 /\ SubSeq(s, 2, 3) \in DOMAIN PercentDecoded
    THEN LET rest == DecodeURIComponent(SubSeq(s, 4, Len(s)))
         IN  [ok |-> rest.ok,
              value |-> <<PercentDecoded[SubSeq(s, 2, 3)]>> \o rest.value]
    ELSE [ok |-> FALSE, value |-> <<>>]

\* profile?.skills || []
CurrentSkills(userId) ==
    IF userId \in DOMAIN profiles THEN profiles[userId].skills ELSE <<>>

\* profile.upsert({ update: { skills }, create: { userId, skills,
\* expertise: [] } })
WithSkills(table, userId, skills) ==
    IF userId \in DOMAIN table
    THEN Put(table, userId, [table[userId] EXCEPT !.skills = skills])
    ELSE Put(table, userId, [EmptyProfile EXCEPT !.skills = skills])

\* the duplicate test comparing the strings as they are
SkillExists_CaseSensitive(currentSkills, cleanedSkill) ==
    \E i \in DOMAIN currentSkills : currentSkills[i] = cleanedSkill

\* currentSkills.some(s => s.toLowerCase() === cleanedSkill.toLowerCase())
SkillExists(currentSkills, cleanedSkill) ==
    \E i \in DOMAIN currentSkills :
        ToLowerCase(currentSkills[i]) = ToLowerCase(cleanedSkill)

\* the limit test letting a 51st entry in
AtLimit_OffByOne(currentSkills) == Len(currentSkills) > MaxSkills

\* currentSkills.length >= 50
AtLimit(currentSkills) == Len(currentSkills) >= MaxSkills

\* skills.map(trim).filter(length > 0).slice(0, 50)
RECURSIVE CleanedSkills(_)
CleanedSkills(skills) ==
    IF skills = <<>> THEN <<>>
    ELSE (IF TrimSkill(Head(skills)) = <<>> THEN <<>>
          ELSE <<TrimSkill(Head(skills))>>) \o CleanedSkills(Tail(skills))

FirstSkills(skills) ==
    SubSeq(skills, 1, IF Len(skills) > MaxSkills THEN MaxSkills
                      ELSE Len(skills))

SkillsFrame ==
    UNCHANGED <<now, personalProjects, publications, experiences,
                badgeDefinitions, studentBadges, badgePolicies,
                badgeEligibilityCache>>

\* What a skills handler leaves behind when it replies without a write.
SkillsReply(request, reply, log) ==
    /\ req' = request
    /\ UNCHANGED <<rows, inflight>>
    /\ resp' = reply
    /\ seen' = <<>>
    /\ calls' = log
    /\ UNCHANGED profiles
    /\ SkillsFrame

\* ... and when it upserts the list and replies with it.
SkillsWritten(request, userId, skills, log) ==
    /\ req' = request
    /\ UNCHANGED <<rows, inflight>>
    /\ profiles' = WithSkills(profiles, userId, skills)
    /\ resp' = [status |-> 200, skills |-> skills]
    /\ seen' = Found(profiles, userId)
    /\ calls' = log
    /\ SkillsFrame

\* PUT /v1/profile/me/skills
UpdateSkills(auth, caller, skills) ==
    LET request == [op |-> "updateSkills", auth |-> auth, caller |-> caller,
                    skills |-> skills]
    IN  IF RequireAuth(auth) # 0
        THEN Refuse(request, RequireAuth(auth), auth)
        ELSE SkillsWritten(request, caller,
                           FirstSkills(CleanedSkills(skills)),
                           <<"profile.upsert">>)

\* POST /v1/profile/me/skills
AddSkill(auth, caller, skill) ==
    LET request == [op |-> "addSkill", auth |-> auth, caller |-> caller,
                    skill |-> skill]
        cleanedSkill == TrimSkill(skill)
        currentSkills == CurrentSkills(caller)
    IN  IF RequireAuth(auth) # 0
        THEN Refuse(request, RequireAuth(auth), auth)
        ELSE IF Len(skill) < 1 \/ Len(skill) > MaxSkillLength
        THEN SkillsReply(request,
                         [status |-> 400, message |-> "Validation error"],
                         <<>>)
        ELSE IF cleanedSkill = <<>>
        THEN SkillsReply(request,
                         [status |-> 400, message |-> "Skill cannot be empty"],
                         <<>>)
        ELSE IF SkillExists(currentSkills, cleanedSkill)
        THEN SkillsReply(request,
                         [status |-> 400, message |-> "Skill already exists"],
                         <<"profile.findUnique">>)
        ELSE IF AtLimit(currentSkills)
        THEN SkillsReply(request,
                         [status |-> 400,
                          message |-> "Maximum 50 skills allowed"],
                         <<"profile.findUnique">>)
        ELSE SkillsWritten(request, caller,
                           Append(currentSkills, cleanedSkill),
                           <<"profile.findUnique", "profile.upsert">>)

\* DELETE /v1/profile/me/skills/:skill -- skill is the path parameter as the
\* router hands it over, its percent-escapes already decoded once
RemoveSkill(auth, caller, skill) ==
    LET request == [op |-> "removeSkill", auth |-> auth, caller |-> caller,
                    skill |-> skill]
        decodedSkill == DecodeURIComponent(skill)
        currentSkills == CurrentSkills(caller)
        keeps(s) == s # decodedSkill.value
    IN  IF RequireAuth(auth) # 0
        THEN Refuse(request, RequireAuth(auth), auth)
        ELSE IF ~decodedSkill.ok
        THEN SkillsReply(request,
                         [status |-> 500, error |-> "Internal Server Error"],
                         <<>>)
        ELSE SkillsWritten(request, caller, SelectSeq(currentSkills, keeps),
                           <<"profile.findUnique", "profile.upsert">>)

-----------------------------------------------------------------------------
(* The eligibility engine with the operations that feed it *)

ValidFaculty == {"FACULTY"}
UserOk(collegeId) == GatewayReply("user", 200, "Asha", collegeId)

EligibilityGateway ==
    {GatewayReply("error", 0, Null, Null),
     GatewayReply("nouser", 200, Null, Null)}
    \cup GatewayUsers({"Asha"}, Colleges \cup {Null})

\* awards to u1 of: an unknown definition, one of a category u1 already
\* holds, one of the category u1 lacks, an inactive one
AwardBodies == [userId : {"u1"}, badgeDefinitionId : {0, 1, 4, 5}]

PolicyBodies ==
    {[collegeId |-> "c1", eventCreationRequired |-> 8,
      categoryDiversityMin |-> 3],
     [collegeId |-> "c2", eventCreationRequired |-> 2,
      categoryDiversityMin |-> 4]}

NextElig ==
    \/ Tick
    \/ \E auth \in {"valid", "invalid"}, userId \in Users,
          gw \in EligibilityGateway :
            CheckEligibility(auth, userId, gw)
    \/ \E body \in AwardBodies :
            AwardBadge("valid", ValidFaculty, "u2", body, UserOk("c1"),
                       "created")
    \/ \E body \in PolicyBodies :
            CreatePolicy("valid", {"HEAD_ADMIN"}, body)

SpecElig == Init /\ [][NextElig]_vars

-----------------------------------------------------------------------------
(* The award handler against every reply of the gateway and of the feed *)

AwardGateway == GatewayFailures \cup {UserOk("c1")}

NextAward ==
    \E roles \in {{"STUDENT"}, {"FACULTY"}},
       body \in [userId : Users, badgeDefinitionId : {0, 1}],
       gw \in AwardGateway, post \in PostOutcomes :
        AwardBadge("valid", roles, "u1", body, gw, post)

SpecAward == Init /\ [][NextAward]_vars

-----------------------------------------------------------------------------
(* The sub-entity endpoints called by owners and by strangers *)

OwnerAuth == {"valid", "missing"}
OwnerRoles == {{"STUDENT"}, {"FACULTY"}}

NextOwner ==
    \/ \E auth \in OwnerAuth, caller \in Users :
        \/ CreateProject(auth, caller, [title |-> "t1"])
        \/ CreateExperience(auth, caller, [title |-> "t1"])
    \/ \E auth \in OwnerAuth, caller \in Users, id \in RequestIds :
        \/ UpdateProject(auth, caller, id, [title |-> "t2"])
        \/ DeleteProject(auth, caller, id)
        \/ UpdateExperience(auth, caller, id, [title |-> "t2"])
        \/ DeleteExperience(auth, caller, id)
    \/ \E auth \in OwnerAuth, caller \in Users, roles \in OwnerRoles :
        CreatePublication(auth, roles, caller, [title |-> "t1"])
    \/ \E auth \in OwnerAuth, caller \in Users, roles \in OwnerRoles,
          id \in RequestIds :
        \/ UpdatePublication(auth, roles, caller, id, [title |-> "t2"])
        \/ DeletePublication(auth, roles, caller, id)

SpecOwner == Init /\ [][NextOwner]_vars

-----------------------------------------------------------------------------
(* The role-gated endpoints called with every role set *)

GuardAuth == {"valid", "invalid"}

NextGuard ==
    \/ \E auth \in GuardAuth, roles \in RoleSets :
        \/ CreatePublication(auth, roles, "u2", [title |-> "t1"])
        \/ CreateBadgeDefinition(auth, roles, "u2", [category |-> "A"])
        \/ AwardBadge(auth, roles, "u2",
                      [userId |-> "u2", badgeDefinitionId |-> 1],
                      UserOk("c1"), "created")
        \/ CreatePolicy(auth, roles,
                        [collegeId |-> "c1", eventCreationRequired |-> 8,
                         categoryDiversityMin |-> 4])
    \/ \E auth \in GuardAuth, roles \in RoleSets, id \in RequestIds :
        \/ UpdatePublication(auth, roles, "u2", id, [title |-> "t2"])
        \/ DeletePublication(auth, roles, "u2", id)

SpecGuard == Init /\ [][NextGuard]_vars

-----------------------------------------------------------------------------
(* The enrichment reads against every reply of the gateway, with the profile
   update *)

ProfileGateway ==
    {GatewayReply("error", 0, Null, Null),
     GatewayReply("error", 500, Null, Null),
     GatewayReply("nouser", 200, Null, Null)}
    \cup GatewayUsers(DisplayNames \cup {Null}, {"c1", Null})

UpdateBodies ==
    {[name |-> "Zed"], [bio |-> "hello"], [name |-> "Zed", bio |-> "hello"],
     [skills |-> <<<<"t", "l", "a">>>>], [expertise |-> <<<<"m", "l">>>>],
     [displayName |-> "Dee"], [name |-> ""]}

\* the college fetch is made, and its reply matters, only for a user with a
\* college
CollegeRepliesFor(gw) ==
    IF Truthy(CollegeIdOf(gw)) THEN CollegeReplies ELSE {Null}

NextProfile ==
    \/ \E caller \in Users, gw \in ProfileGateway :
        \E college \in CollegeRepliesFor(gw) :
            GetMyProfile("valid", caller, gw, college)
    \/ \E gw \in ProfileGateway :
        GetMyProfile("missing", "u1", gw, Null)
    \/ \E userId \in Users, gw \in ProfileGateway :
        \E college \in CollegeRepliesFor(gw) :
            GetUserProfile("valid", userId, gw, college)
    \/ \E body \in UpdateBodies, userUpdate \in {"ok", "error"} :
        UpdateMyProfile("valid", "u1", body, userUpdate)
    \/ UpdateMyProfile("valid", "u2", [bio |-> "hello"], "ok")

SpecProfile == Init /\ [][NextProfile]_vars

-----------------------------------------------------------------------------
(* The skills sub-resource with lists around the limit *)

Go == <<"G", "o">>
GoLower == <<"g", "o">>
GoPadded == <<" ", "G", "o", " ">>
Rust == <<"R", "u", "s", "t">>
Blank == <<" ", " ">>
\* "100%": a percent sign that starts no escape
Percent == <<"1", "0", "0", "%">>
\* "G%6F": a literal that reads as an escape of "Go"
GoEscaped == <<"G", "%", "6", "F">>

\* n distinct skills s1 .. sn
Filler(i) == <<"s", ToString(i)>>
FillerSkills(n) == [i \in 1..n |-> Filler(i)]

AddInputs == {Go, GoLower, GoPadded, Rust, Blank, <<>>}
RemoveInputs == {Go, GoLower, Rust, Percent, GoEscaped}
SkillLists ==
    {<<>>, <<GoPadded, Blank, Rust>>, FillerSkills(MaxSkills - 1),
     FillerSkills(MaxSkills + 1)}

NextSkills ==
    \/ \E auth \in {"valid", "missing"}, caller \in Users,
          skill \in AddInputs :
        AddSkill(auth, caller, skill)
    \/ \E caller \in Users, skill \in RemoveInputs :
        RemoveSkill("valid", caller, skill)
    \/ \E skills \in SkillLists :
        UpdateSkills("valid", "u1", skills)

SpecSkills == Init /\ [][NextSkills]_vars

-----------------------------------------------------------------------------
(* Every operation that creates or removes a row that refers to a profile *)

LinkGateway == {UserOk("c1"), GatewayReply("nouser", 200, Null, Null)}

NextLinks ==
    \/ \E caller \in Users :
        \/ CreateProject("valid", caller, [title |-> "t1"])
        \/ CreatePublication("valid", {"FACULTY"}, caller, [title |-> "t1"])
        \/ CreateExperience("valid", caller, [title |-> "t1"])
    \/ \E caller \in Users, id \in RowIds :
        \/ DeleteProject("valid", caller, id)
        \/ DeletePublication("valid", {"FACULTY"}, caller, id)
        \/ DeleteExperience("valid", caller, id)
    \/ \E userId \in Users, badgeDefinitionId \in {0, 1}, gw \in LinkGateway :
        AwardBadge("valid", {"FACULTY"}, "u1",
                   [userId |-> userId,
                    badgeDefinitionId |-> badgeDefinitionId], gw, "created")
    \/ \E caller \in Users :
        RemoveSkill("valid", caller, Go)

SpecLinks == Init /\ [][NextLinks]_vars

-----------------------------------------------------------------------------
(* The writes to the uniquely keyed tables, interleaved *)

\* Each place where a handler writes a Profile, BadgePolicy or
\* BadgeEligibilityCache row: the operation, the table, the store call and
\* the status the handler answers when the call succeeds.
WriteSite(op, table, call, status) ==
    [op |-> op, table |-> table, call |-> call, status |-> status]

WriteSites ==
    {WriteSite("updateMyProfile", "profile", "upsert", 200),
     WriteSite("backfill", "profile", "upsert", 200),
     WriteSite("createProject", "profile", "upsert", 201),
     WriteSite("createPublication", "profile", "upsert", 201),
     WriteSite("createExperience", "profile", "upsert", 200),
     WriteSite("skills", "profile", "upsert", 200),
     WriteSite("award", "profile", "upsert", 201),
     WriteSite("eligibility", "badgeEligibilityCache", "upsert", 200),
     WriteSite("createPolicy", "badgePolicy", "create", 201)}

\* the values of the unique column of a table: userId or collegeId
KeysOf(table) == IF table = "badgePolicy" THEN {"c1"} ELSE Users

\* the number of physical rows of a table that carry the key
Count(list, key) == Cardinality({i \in DOMAIN list : list[i] = key})

\* the write deciding on what its look-up saw, with no unique index behind it
UniqueInsert_TrustLookup(list, key, found) ==
    IF found THEN list ELSE Append(list, key)

\* The write as the store performs it under the unique index on the key: an
\* upsert updates the row that is there, whatever its look-up saw, and a
\* create (or the insert of an upsert that lost the race) is refused; a row
\* is inserted only when none carries the key.
UniqueInsert(list, key, found) ==
    IF Count(list, key) > 0 THEN list ELSE Append(list, key)

\* What the write answers: a create on an existing key throws (P2002), an
\* upsert whose look-up saw no row and whose insert meets one either updates
\* it or throws; an uncaught throw is answered 500.
WriteStatuses(site, found, present) ==
    IF ~present \/ (site.call = "upsert" /\ found) THEN {site.status}
    ELSE IF site.call = "create" THEN {500}
    ELSE {site.status, 500}

RaceFrame ==
    UNCHANGED <<now, profiles, personalProjects, publications, experiences,
                badgeDefinitions, studentBadges, badgePolicies,
                badgeEligibilityCache>>

\* a handler reaches its write: the look-up for the key is done
StartWrite(site, key) ==
    /\ BagCardinality(inflight) < MaxInflight
    /\ inflight' = inflight (+) SetToBag({[site |-> site, key |-> key,
                       found |-> Count(rows[site.table], key) > 0]})
    /\ UNCHANGED <<rows, req, resp, calls, seen>>
    /\ RaceFrame

\* the write of an in-flight request takes effect and the handler answers
FinishWrite(write) ==
    /\ BagIn(write, inflight)
    /\ LET list == rows[write.site.table]
           present == Count(list, write.key) > 0
       IN  /\ rows' = [rows EXCEPT ![write.site.table] =
                          UniqueInsert(list, write.key, write.found)]
           /\ \E status \in WriteStatuses(write.site, write.found, present) :
                 resp' = [status |-> status]
           /\ req' = [op |-> write.site.op, key |-> write.key,
                      found |-> write.found, present |-> present]
    /\ inflight' = inflight (-) SetToBag({write})
    /\ calls' = <<write.site.table, write.site.call>>
    /\ seen' = <<>>
    /\ RaceFrame

NextRace ==
    \/ \E site \in WriteSites, key \in Users \cup {"c1"} :
        key \in KeysOf(site.table) /\ StartWrite(site, key)
    \/ \E write \in BagToSet(inflight) : FinishWrite(write)

SpecRace == Init /\ [][NextRace]_vars

-----------------------------------------------------------------------------
(* Every writing operation of the service, one request of each *)

NextService ==
    \/ CheckEligibility("valid", "u1", UserOk("c1"))
    \/ \E badgeDefinitionId \in {0, 1} :
        AwardBadge("valid", {"FACULTY"}, "u1",
                   [userId |-> "u1", badgeDefinitionId |-> badgeDefinitionId],
                   UserOk("c1"), "created")
    \/ CreateBadgeDefinition("valid", {"FACULTY"}, "u2", [category |-> "D"])
    \/ CreatePolicy("valid", {"HEAD_ADMIN"},
                    [collegeId |-> "c1", eventCreationRequired |-> 8,
                     categoryDiversityMin |-> 3])
    \/ CreateProject("valid", "u1", [title |-> "t1"])
    \/ CreatePublication("valid", {"FACULTY"}, "u1", [title |-> "t1"])
    \/ CreateExperience("valid", "u1", [title |-> "t1"])
    \/ \E id \in RowIds :
        \/ UpdateProject("valid", "u1", id, [title |-> "t1"])
        \/ DeleteProject("valid", "u1", id)
        \/ UpdatePublication("valid", {"FACULTY"}, "u1", id, [title |-> "t1"])
        \/ DeletePublication("valid", {"FACULTY"}, "u1", id)
        \/ UpdateExperience("valid", "u1", id, [title |-> "t1"])
        \/ DeleteExperience("valid", "u1", id)
    \/ GetMyProfile("valid", "u1", UserOk("c1"), "Nexus College")
    \/ UpdateMyProfile("valid", "u1", [name |-> "Zed"], "ok")
    \/ UpsertMyProfile("valid", "u1", [name |-> "Zed"])
    \/ UpdateSkills("valid", "u1", <<Rust>>)
    \/ AddSkill("valid", "u1", Rust)
    \/ RemoveSkill("valid", "u1", Rust)

SpecService == Init /\ [][NextService]_vars

-----------------------------------------------------------------------------
(* Every operation that writes a skills list *)

\* bodies of the two profile updates that carry a skills list: one entry too
\* many, and two entries equal but for case
SkillBodies ==
    {[skills |-> FillerSkills(MaxSkills + 1)], [skills |-> <<Go, GoLower>>],
     [skills |-> <<Rust>>]}

NextSkillWrites ==
    \/ \E caller \in Users, skill \in {Go, GoLower, Rust} :
        AddSkill("valid", caller, skill)
    \/ \E skill \in {Go, Rust} :
        RemoveSkill("valid", "u1", skill)
    \/ \E skills \in {<<>>, <<Go, GoLower>>, FillerSkills(MaxSkills + 1)} :
        UpdateSkills("valid", "u1", skills)
    \/ \E body \in SkillBodies :
        UpdateMyProfile("valid", "u1", body, "ok")
    \/ \E body \in SkillBodies :
        UpsertMyProfile("valid", "u1", body)

SpecSkillWrites == Init /\ [][NextSkillWrites]_vars

-----------------------------------------------------------------------------
(* Handlers taken one call at a time.  A request enters inflight with its
   first call and stays there, answered, when its handler has replied. *)

Requests == BagToSet(inflight)

\* the requests of an operation that have been answered
Answered(op) == {r \in Requests : r.op = op /\ r.pc = "done"}

\* a request arrives and its handler makes its first call
Admit(request) ==
    /\ BagCardinality(inflight) < MaxRequests
    /\ inflight' = inflight (+) SetToBag({request})

\* the handler of a request makes its next call
Advance(before, after) ==
    /\ BagIn(before, inflight)
    /\ inflight' = (inflight (-) SetToBag({before})) (+) SetToBag({after})

\* what a call leaves in the history variables
CallFrame(request, call) ==
    /\ req' = request
    /\ resp' = [status |-> request.status]
    /\ calls' = <<call>>
    /\ seen' = <<>>
    /\ UNCHANGED rows

-----------------------------------------------------------------------------
(* POST /v1/profile/me/skills, its look-up and its upsert apart *)

\* the status the handler answers before any write, or 0 when it goes on to
\* the upsert
AddSkillCheck(skill, currentSkills) ==
    IF Len(skill) < 1 \/ Len(skill) > MaxSkillLength THEN 400
    ELSE IF TrimSkill(skill) = <<>> THEN 400
    ELSE IF SkillExists(currentSkills, TrimSkill(skill)) THEN 400
    ELSE IF AtLimit(currentSkills) THEN 400
    ELSE 0

\* profile.findUnique and the tests on the list it returned
AddSkillLookup(caller, skill) ==
    LET currentSkills == CurrentSkills(caller)
        check == AddSkillCheck(skill, currentSkills)
        request == [op |-> "addSkill", caller |-> caller,
                    skill |-> TrimSkill(skill),
                    currentSkills |-> currentSkills,
                    pc |-> IF check # 0 THEN "done" ELSE "upsert",
                    status |-> check]
    IN  /\ Admit(request)
        /\ CallFrame(request, "profile.findUnique")
        /\ UNCHANGED profiles
        /\ SkillsFrame

\* profile.upsert with [...currentSkills, cleanedSkill], the list as the
\* look-up returned it
AddSkillUpsert(request) ==
    /\ request.op = "addSkill"
    /\ request.pc = "upsert"
    /\ LET after == [request EXCEPT !.pc = "done", !.status = 200]
       IN  /\ Advance(request, after)
           /\ CallFrame(after, "profile.upsert")
    /\ profiles' = WithSkills(profiles, request.caller,
                              Append(request.currentSkills, request.skill))
    /\ SkillsFrame

NextAdds ==
    \/ \E caller \in Users, skill \in {Go, GoLower, GoPadded, Rust, Blank} :
        AddSkillLookup(caller, skill)
    \/ \E request \in Requests : AddSkillUpsert(request)

SpecAdds == Init /\ [][NextAdds]_vars

-----------------------------------------------------------------------------
(* The three sub-entity deletes, their ownership check and their delete
   apart *)

SubEntityTables == {"personalProject", "publication", "experience"}

TableNamed(name) ==
    IF name = "personalProject" THEN personalProjects
    ELSE IF name = "publication" THEN publications
    ELSE experiences

\* 204 from the project and publication handlers, 200 from the experience
\* handler
DeletedStatus(name) == IF name = "experience" THEN 200 ELSE 204

\* prisma delete({ where: { id } }) on a row that is not there throws
\* (P2025); no handler catches it and the framework answers 500
DeleteStatus(name, id) ==
    IF id \in DOMAIN TableNamed(name) THEN DeletedStatus(name) ELSE 500

\* findFirst({ where: { id, profile: { userId } } }) of the project and
\* publication handlers, findUnique({ where: { id } }) with the test of
\* experience.profile.userId of the experience handler
DeleteLookup(name, caller, id) ==
    /\ LET found == IF name = "experience"
                    THEN ~ExperienceDenied(experiences, id, caller)
                    ELSE OwnedRow(TableNamed(name), id, caller)
           request == [op |-> "delete", table |-> name, caller |-> caller,
                       id |-> id, found |-> found,
                       pc |-> IF found THEN "delete" ELSE "done",
                       status |-> IF found THEN 0 ELSE 404]
       IN  /\ Admit(request)
           /\ CallFrame(request, name \o ".find")
    /\ UNCHANGED <<now, profiles, personalProjects, publications, experiences,
                   badgeDefinitions, studentBadges, badgePolicies,
                   badgeEligibilityCache>>

\* prisma delete({ where: { id } }) and the reply
DeleteRow(request) ==
    /\ request.op = "delete"
    /\ request.pc = "delete"
    /\ LET after == [request EXCEPT
                        !.pc = "done",
                        !.status = DeleteStatus(request.table, request.id)]
       IN  /\ Advance(request, after)
           /\ CallFrame(after, request.table \o ".delete")
    /\ personalProjects' = IF request.table = "personalProject"
                           THEN Remove(personalProjects, request.id)
                           ELSE personalProjects
    /\ publications' = IF request.table = "publication"
                       THEN Remove(publications, request.id)
                       ELSE publications
    /\ experiences' = IF request.table = "experience"
                      THEN Remove(experiences, request.id)
                      ELSE experiences
    /\ UNCHANGED <<now, profiles, badgeDefinitions, studentBadges,
                   badgePolicies, badgeEligibilityCache>>

\* the rows are created before the first delete arrives, so that an id names
\* one row for the whole behaviour
NextDeletes ==
    \/ /\ inflight = EmptyBag
       /\ \E caller \in Users :
            \/ CreateProject("valid", caller, [title |-> "t1"])
            \/ CreatePublication("valid", {"FACULTY"}, caller,
                                 [title |-> "t1"])
            \/ CreateExperience("valid", caller, [title |-> "t1"])
    \/ \E name \in SubEntityTables, caller \in Users, id \in RowIds :
        DeleteLookup(name, caller, id)
    \/ \E request \in Requests : DeleteRow(request)

SpecDeletes == Init /\ [][NextDeletes]_vars

-----------------------------------------------------------------------------
(* GET /v1/profile/me, its initial read and its backfill apart, with the
   profile update *)

\* profile.findUnique: the handler keeps what it read as initialProfile and
\* goes on to the gateway
ReadLookup(caller, gw) ==
    /\ LET request == [op |-> "getMyProfile", caller |-> caller, gw |-> gw,
                       initialProfile |-> Found(profiles, caller),
                       pc |-> "gateway", status |-> 0]
       IN  /\ Admit(request)
           /\ CallFrame(request, "profile.findUnique")
    /\ UNCHANGED <<now, profiles, personalProjects, publications, experiences,
                   badgeDefinitions, studentBadges, badgePolicies,
                   badgeEligibilityCache>>

\* the gateway has answered: the backfill upsert, decided on initialProfile,
\* and the reply
ReadFinish(request) ==
    /\ request.op = "getMyProfile"
    /\ request.pc = "gateway"
    /\ LET displayName == DisplayNameOf(request.gw)
           backfill == ShouldBackfill(displayName, request.initialProfile)
           after == [request EXCEPT !.pc = "done", !.status = 200]
       IN  /\ Advance(request, after)
           /\ CallFrame(after, IF backfill THEN "profile.upsert"
                               ELSE "gateway.user")
           /\ profiles' = IF backfill
                          THEN Backfilled(profiles, request.caller, displayName)
                          ELSE profiles
    /\ UNCHANGED <<now, personalProjects, publications, experiences,
                   badgeDefinitions, studentBadges, badgePolicies,
                   badgeEligibilityCache>>

BackfillGateway ==
    {GatewayReply("error", 0, Null, Null)}
    \cup GatewayUsers(DisplayNames \cup {Null}, {"c1"})

NextBackfill ==
    \/ \E caller \in Users, gw \in BackfillGateway : ReadLookup(caller, gw)
    \/ \E request \in Requests : ReadFinish(request)
    \/ \E caller \in Users, body \in {[name |-> "Zed"], [bio |-> "hello"]} :
        UpdateMyProfile("valid", caller, body, "ok")

SpecBackfill == Init /\ [][NextBackfill]_vars

-----------------------------------------------------------------------------
(* GET /v1/badges/eligibility/:userId, one store call at a time, with the
   operations that change what it computes from *)

\* what an eligibility computation reads: the awards, the catalog and the
\* policies.  All three only grow, so two equal readings have nothing between
\* them.
Basis == <<studentBadges, badgeDefinitions, badgePolicies>>

\* the upsert keeping the row that is there: the first writer wins
CacheUpsert_InsertOnly(cache, userId, row) ==
    IF userId \in DOMAIN cache THEN cache ELSE Put(cache, userId, row)

\* badgeEligibilityCache.upsert({ where: { userId }, update, create }) : one
\* unique column, one model, no relation read; the store runs it as a single
\* insert-or-update, so the last writer wins
CacheUpsert(cache, userId, row) == Put(cache, userId, row)

\* the gateway call and badgeEligibilityCache.findUnique: the request is
\* answered 500 or 400 on the gateway's reply, from the row when it has not
\* expired, and goes on to recompute otherwise
EligibilityLookup(userId, gw) ==
    /\ LET hit == CacheHit(badgeEligibilityCache, userId, now)
           resolved == gw.kind # "error" /\ Truthy(ResolvedCollege(gw))
           request ==
               [op |-> "eligibility", userId |-> userId, gw |-> gw,
                cached |-> IF resolved THEN Found(badgeEligibilityCache, userId)
                           ELSE <<>>,
                basis |-> Basis, stable |-> TRUE, order |-> 0,
                requiredBadges |-> 0, requiredCategories |-> 0,
                badgeCount |-> IF resolved /\ hit
                               THEN badgeEligibilityCache[userId].badgeCount
                               ELSE 0,
                categories |-> IF resolved /\ hit
                               THEN badgeEligibilityCache[userId].categories
                               ELSE <<>>,
                canCreate |-> IF resolved /\ hit
                              THEN badgeEligibilityCache[userId].canCreate
                              ELSE FALSE,
                pc |-> IF resolved /\ ~hit THEN "policy" ELSE "done",
                status |-> IF gw.kind = "error" THEN 500
                           ELSE IF ~resolved THEN 400
                           ELSE IF hit THEN 200 ELSE 0]
       IN  /\ Admit(request)
           /\ CallFrame(request, IF resolved
                                 THEN "badgeEligibilityCache.findUnique"
                                 ELSE "gateway.user")
    /\ UNCHANGED <<now, profiles, personalProjects, publications, experiences,
                   badgeDefinitions, studentBadges, badgePolicies,
                   badgeEligibilityCache>>

\* badgePolicy.findUnique({ where: { collegeId } })
EligibilityPolicy(request) ==
    /\ request.op = "eligibility"
    /\ request.pc = "policy"
    /\ LET after ==
               [request EXCEPT
                   !.pc = "badges",
                   !.requiredBadges =
                       RequiredBadges(badgePolicies, request.gw.collegeId),
                   !.requiredCategories =
                       RequiredCategories(badgePolicies, request.gw.collegeId)]
       IN  /\ Advance(request, after)
           /\ CallFrame(after, "badgePolicy.findUnique")
    /\ UNCHANGED <<now, profiles, personalProjects, publications, experiences,
                   badgeDefinitions, studentBadges, badgePolicies,
                   badgeEligibilityCache>>

\* studentBadge.findMany({ where: { studentId } }) and the computation
EligibilityBadges(request) ==
    /\ request.op = "eligibility"
    /\ request.pc = "badges"
    /\ LET activeBadges ==
               ActiveBadges(UserBadges(studentBadges, request.userId),
                            badgeDefinitions)
           categories == ActiveCategories(activeBadges, badgeDefinitions)
           after ==
               [request EXCEPT
                   !.pc = "upsert",
                   !.badgeCount = Len(activeBadges),
                   !.categories = categories,
                   !.canCreate = CanCreate(Len(activeBadges), Len(categories),
                                           request.requiredBadges,
                                           request.requiredCategories)]
       IN  /\ Advance(request, after)
           /\ CallFrame(after, "studentBadge.findMany")
    /\ UNCHANGED <<now, profiles, personalProjects, publications, experiences,
                   badgeDefinitions, studentBadges, badgePolicies,
                   badgeEligibilityCache>>

\* badgeEligibilityCache.upsert and the reply.  order numbers the upserts of
\* a behaviour; stable tells that the store still held, at the upsert, what
\* it held when the request arrived.
EligibilityUpsert(request) ==
    /\ request.op = "eligibility"
    /\ request.pc = "upsert"
    /\ LET row == [canCreate |-> request.canCreate,
                   badgeCount |-> request.badgeCount,
                   categories |-> request.categories, lastChecked |-> now,
                   expiresAt |-> now + CacheTtl]
           after == [request EXCEPT
                        !.pc = "done", !.status = 200,
                        !.stable = (Basis = request.basis),
                        !.order = Cardinality({r \in Requests :
                                                  r.order > 0}) + 1]
       IN  /\ Advance(request, after)
           /\ req' = after
           /\ resp' = [status |-> 200]
           /\ calls' = <<"badgeEligibilityCache.upsert">>
           /\ seen' = <<>>
           /\ badgeEligibilityCache' =
                  CacheUpsert(badgeEligibilityCache, request.userId, row)
           /\ rows' = [rows EXCEPT !.badgeEligibilityCache =
                          UniqueInsert(@, request.userId,
                                       request.cached # <<>>)]
    /\ UNCHANGED <<now, profiles, personalProjects, publications, experiences,
                   badgeDefinitions, studentBadges, badgePolicies>>

RecomputeGateway == {UserOk("c1"), GatewayReply("error", 0, Null, Null)}

NextRecompute ==
    \/ Tick
    \/ \E gw \in RecomputeGateway : EligibilityLookup("u1", gw)
    \/ \E request \in Requests : EligibilityPolicy(request)
    \/ \E request \in Requests : EligibilityBadges(request)
    \/ \E request \in Requests : EligibilityUpsert(request)
    \/ AwardBadge("valid", ValidFaculty, "u2",
                  [userId |-> "u1", badgeDefinitionId |-> 4], UserOk("c1"),
                  "created")
    \/ CreatePolicy("valid", {"HEAD_ADMIN"},
                    [collegeId |-> "c1", eventCreationRequired |-> 7,
                     categoryDiversityMin |-> 3])

SpecRecompute == Init /\ [][NextRecompute]_vars

-----------------------------------------------------------------------------
(* The outbound calls to the Identity Gateway and their timeouts *)

\* A place where a handler awaits the gateway: the operation, the timeout in
\* milliseconds the call is made with (0 when the call names none: axios
\* then waits without limit), the status the handler answers when the
\* gateway has replied, and the status of its degrade or error path when the
\* call has failed.
GatewayCall(op, timeout, replied, failed) ==
    [op |-> op, timeout |-> timeout, replied |-> replied, failed |-> failed]

GatewayCalls ==
    {GatewayCall("getMyProfile", 5000, 200, 200),
     GatewayCall("getUserProfile", 5000, 200, 200),
     GatewayCall("updateMyProfile", 5000, 200, 500),
     GatewayCall("award", 0, 201, 500),
     GatewayCall("export", 0, 200, 200),
     GatewayCall("recent", 0, 200, 200),
     GatewayCall("eligibility", 0, 200, 500)}

WaitFrame ==
    UNCHANGED <<now, profiles, personalProjects, publications, experiences,
                badgeDefinitions, studentBadges, badgePolicies,
                badgeEligibilityCache>>

\* the handler sends the call and awaits the reply
CallGateway(site) ==
    /\ LET request == [op |-> site.op, timeout |-> site.timeout,
                       replied |-> site.replied, failed |-> site.failed,
                       pc |-> "gateway", status |-> 0]
       IN  /\ Admit(request)
           /\ CallFrame(request, "gateway.user")
    /\ WaitFrame

\* the gateway replies and the handler runs to its answer
GatewayReplies(request) ==
    /\ request.pc = "gateway"
    /\ LET after == [request EXCEPT !.pc = "done",
                                    !.status = request.replied]
       IN  /\ Advance(request, after)
           /\ CallFrame(after, "gateway.reply")
    /\ WaitFrame

\* the timeout of the call expires: the call fails and the handler runs its
\* degrade or error path.  A call made without a timeout has no such step.
TimeoutExpires(request) ==
    /\ request.pc = "gateway"
    /\ request.timeout > 0
    /\ LET after == [request EXCEPT !.pc = "done",
                                    !.status = request.failed]
       IN  /\ Advance(request, after)
           /\ CallFrame(after, "gateway.timeout")
    /\ WaitFrame

Expiry == \E request \in Requests : TimeoutExpires(request)

NextTimeouts ==
    \/ \E site \in GatewayCalls : CallGateway(site)
    \/ \E request \in Requests : GatewayReplies(request)
    \/ Expiry

\* A timer that is set fires; nothing makes the gateway reply.
SpecTimeouts == Init /\ [][NextTimeouts]_vars /\ WF_vars(Expiry)

-----------------------------------------------------------------------------
(* Properties of the eligibility engine *)

Range(list) == {list[i] : i \in DOMAIN list}

\* the last request was an eligibility check that passed requireAuth
EligibilityAnswered == req.op = "eligibility" /\ req.auth = "valid"

\* ... and it computed its answer from the award table
FreshEligibility ==
    EligibilityAnswered /\ "studentBadge.findMany" \in Range(calls)

\* the awards of a user whose definition is active, as a set of row ids
ActiveAwardsOf(userId) ==
    {i \in DOMAIN studentBadges :
        /\ studentBadges[i].studentId = userId
        /\ badgeDefinitions[studentBadges[i].badgeId].isActive}

\* the distinct non-null categories among them
ActiveCategoriesOf(userId) ==
    {badgeDefinitions[studentBadges[i].badgeId].category :
        i \in ActiveAwardsOf(userId)} \ {Null}

\* C1: on every fresh eligibility computation for a user with a resolvable
\* college, the returned and the cached canCreate is true iff the number of
\* the user's awards of active definitions reaches requiredBadges and the
\* number of their distinct non-null categories reaches requiredCategories,
\* the thresholds being those of the college's BadgePolicy, or (8, 4) when
\* the college has no policy row.
C1_CanCreateIffThresholds ==
    FreshEligibility =>
        LET collegeId == req.gw.collegeId
            hasPolicy == collegeId \in DOMAIN badgePolicies
            requiredBadges ==
                IF hasPolicy THEN badgePolicies[collegeId].eventCreationRequired
                ELSE 8
            requiredCategories ==
                IF hasPolicy THEN badgePolicies[collegeId].categoryDiversityMin
                ELSE 4
            expected ==
                /\ Cardinality(ActiveAwardsOf(req.userId)) >= requiredBadges
                /\ Cardinality(ActiveCategoriesOf(req.userId))
                       >= requiredCategories
        IN  /\ resp.status = 200
            /\ resp.canCreate = expected
            /\ req.userId \in DOMAIN badgeEligibilityCache
            /\ badgeEligibilityCache[req.userId].canCreate = expected

\* a fresh computation under the default thresholds that grants the capability
C1_Witness ==
    /\ FreshEligibility
    /\ req.gw.collegeId \notin DOMAIN badgePolicies
    /\ resp.canCreate
    /\ Cardinality(ActiveAwardsOf(req.userId)) = 8
    /\ Cardinality(ActiveCategoriesOf(req.userId)) = 4

\* a step that is an eligibility check passing requireAuth
EligibilityStep ==
    /\ req'.op = "eligibility"
    /\ req'.auth = "valid"
    /\ now' = now

\* before the step the user had a cache row that had not expired
UnexpiredRow(userId) ==
    /\ userId \in DOMAIN badgeEligibilityCache
    /\ now < badgeEligibilityCache[userId].expiresAt

AnsweredFromCache ==
    /\ resp'.status = 200
    /\ calls' = <<"badgeEligibilityCache.findUnique">>

Recomputed ==
    /\ resp'.status = 200
    /\ calls' = <<"badgeEligibilityCache.findUnique", "badgePolicy.findUnique",
                  "studentBadge.findMany", "badgeEligibilityCache.upsert">>
    /\ req'.userId \in DOMAIN badgeEligibilityCache'
    /\ badgeEligibilityCache'[req'.userId].expiresAt = now + 30
    /\ badgeEligibilityCache'[req'.userId].canCreate = resp'.canCreate
    /\ badgeEligibilityCache'[req'.userId].badgeCount = resp'.badgeCount
    /\ badgeEligibilityCache'[req'.userId].categories = resp'.categories

CollegeResolved == req'.gw.kind = "user" /\ req'.gw.collegeId \in Colleges

\* C2 as stated: the second of two eligibility checks of a user made within
\* the window of the same cache row, with no award in between, returns the
\* canCreate, badgeCount and categories of the first, reads only the cache
\* row and writes nothing.
C2_SecondCheckFromCache ==
    [][ ( /\ EligibilityStep
          /\ EligibilityAnswered
          /\ resp.status = 200
          /\ req'.userId = req.userId
          /\ UnexpiredRow(req.userId) )
        => ( /\ resp'.status = 200
             /\ resp'.canCreate = resp.canCreate
             /\ resp'.badgeCount = resp.badgeCount
             /\ resp'.categories = resp.categories
             /\ calls' = <<"badgeEligibilityCache.findUnique">>
             /\ badgeEligibilityCache' = badgeEligibilityCache ) ]_vars

\* C3 as stated: whenever the user has no row or now >= expiresAt, the check
\* recomputes the result and upserts the row with expiresAt = now + 30 min.
C3_AlwaysRecomputedWhenStale ==
    [][ (EligibilityStep /\ ~UnexpiredRow(req'.userId)) => Recomputed ]_vars

\* C3 amended: a check answers from the cache row only while now < expiresAt;
\* with no row or now >= expiresAt, a check whose gateway call resolves a
\* college recomputes the result and upserts the row with expiresAt = now +
\* 30 min, and a check whose gateway call resolves no college answers an
\* error and neither reads nor writes the cache.
C3_StaleRowNeverTrusted ==
    [][ EligibilityStep =>
          /\ AnsweredFromCache => UnexpiredRow(req'.userId)
          /\ (~UnexpiredRow(req'.userId) /\ CollegeResolved) => Recomputed
          /\ ~CollegeResolved =>
                /\ resp'.status \in {400, 500}
                /\ calls' = <<>>
                /\ badgeEligibilityCache' = badgeEligibilityCache ]_vars

\* a check found a row that had expired and replaced it
C3_Witness ==
    /\ FreshEligibility
    /\ seen # <<>>
    /\ seen[1].expiresAt <= resp.lastChecked
    /\ badgeEligibilityCache[req.userId].expiresAt = resp.lastChecked + 30

\* C4 as stated: whenever the user has an unexpired cache row, the check
\* returns that row's canCreate, badgeCount, categories and lastChecked;
\* neither a gateway failure nor a missing college turns the hit into an
\* error.
C4_CacheHitVerbatim ==
    [][ (EligibilityStep /\ UnexpiredRow(req'.userId))
        => ( /\ resp'.status = 200
             /\ resp'.canCreate = badgeEligibilityCache[req'.userId].canCreate
             /\ resp'.badgeCount = badgeEligibilityCache[req'.userId].badgeCount
             /\ resp'.categories = badgeEligibilityCache[req'.userId].categories
             /\ resp'.lastChecked
                    = badgeEligibilityCache[req'.userId].lastChecked ) ]_vars

-----------------------------------------------------------------------------
(* Properties of the award handler *)

\* a step that is an award request passing requireAuth and requireRole
AwardStep ==
    /\ req'.op = "award"
    /\ req'.auth = "valid"
    /\ req'.roles \cap {"FACULTY", "DEPT_ADMIN", "HEAD_ADMIN"} # {}

\* the gateway reports that the user does not exist: a 404, a 2xx without
\* body, or a 2xx whose body carries no user
ReportsAbsent(gw) ==
    \/ gw.kind = "error" /\ gw.status = 404
    \/ gw.kind = "nodata"
    \/ gw.kind = "nouser"

\* C5 as stated: an award request whose target user does not exist in the
\* Identity Gateway is answered 404 and persists no StudentBadge row, in
\* whatever form the gateway reports the absence.
C5_AbsentUserNotAwarded ==
    [][ (AwardStep /\ ReportsAbsent(req'.gw))
        => (resp'.status = 404 /\ studentBadges' = studentBadges) ]_vars

\* C10: once the StudentBadge row is persisted the request answers 201 with
\* that row and the row is in the store, whether the notification succeeded,
\* failed or was skipped by the feature flag; no step removes or changes a
\* stored award.
C10_NotificationNeverUndoesAward ==
    [][ /\ \A i \in DOMAIN studentBadges :
              i \in DOMAIN studentBadges' /\ studentBadges'[i] = studentBadges[i]
        /\ (req'.op = "award" /\ studentBadges' # studentBadges)
           => ( /\ resp'.status = 201
                /\ Len(studentBadges') = Len(studentBadges) + 1
                /\ resp'.badge.id = Len(studentBadges')
                /\ studentBadges'[resp'.badge.id] = resp'.badge.row
                /\ resp'.badge.row.studentId = req'.body.userId
                /\ resp'.badge.row.badgeId = req'.body.badgeDefinitionId ) ]_vars

\* an award whose notification failed was answered 201 and is in the store
C10_Witness ==
    /\ req.op = "award"
    /\ req.post \in {"non2xx", "neterr"}
    /\ resp.status = 201
    /\ resp.badge.id \in DOMAIN studentBadges
    /\ studentBadges[resp.badge.id] = resp.badge.row
    /\ "feed.post" \in Range(calls)

-----------------------------------------------------------------------------
(* Properties of the ownership and role guard *)

MutationOps ==
    {"updateProject", "deleteProject", "updatePublication",
     "deletePublication", "updateExperience", "deleteExperience"}

\* the table a mutation addresses
TargetTable(op) ==
    IF op \in {"updateProject", "deleteProject"} THEN personalProjects
    ELSE IF op \in {"updatePublication", "deletePublication"} THEN publications
    ELSE experiences

\* the not-found reply of each endpoint
NotFoundReply(op) ==
    [status |-> 404,
     message |->
        IF op \in {"updateProject", "deleteProject"} THEN "Project not found"
        ELSE IF op \in {"updatePublication", "deletePublication"}
             THEN "Publication not found"
        ELSE IF op = "updateExperience"
             THEN "Experience not found or access denied"
        ELSE "Experience not found"]

\* a step that is an update or delete, by an authenticated caller, of an id
\* that names a row of another user or no row
StrangerStep ==
    /\ req'.op \in MutationOps
    /\ req'.auth = "valid"
    /\ \/ req'.id \notin DOMAIN TargetTable(req'.op)
       \/ TargetTable(req'.op)[req'.id].userId # req'.caller

SubEntitiesUnchanged ==
    UNCHANGED <<personalProjects, publications, experiences>>

LacksPublicationRole ==
    /\ req'.op \in {"updatePublication", "deletePublication"}
    /\ req'.roles \cap {"FACULTY", "HEAD_ADMIN"} = {}

\* C6 as stated: an authenticated caller who updates or deletes a project,
\* publication or experience that is not theirs always receives 404, the same
\* reply as for an id that names no row, and the row is left unchanged.
C6_StrangerAlwaysNotFound ==
    [][ StrangerStep
        => (resp' = NotFoundReply(req'.op) /\ SubEntitiesUnchanged) ]_vars

\* C6 amended: such a caller never receives a success status and the row is
\* left unchanged; the reply is 404, the same as for an id that names no row,
\* except on the publication endpoints for a caller without the FACULTY or
\* HEAD_ADMIN role, who is answered 403 by the role gate before the ownership
\* check.
C6_StrangerNeverSucceeds ==
    [][ StrangerStep
        => /\ SubEntitiesUnchanged
           /\ IF LacksPublicationRole THEN resp'.status = 403
              ELSE resp' = NotFoundReply(req'.op) ]_vars

\* a caller was refused the update or delete of a row that exists and
\* belongs to another user
C6_Witness ==
    /\ req.op \in MutationOps
    /\ req.auth = "valid"
    /\ req.id \in DOMAIN TargetTable(req.op)
    /\ TargetTable(req.op)[req.id].userId # req.caller
    /\ resp.status = 404

GatedOps ==
    {"createPublication", "updatePublication", "deletePublication",
     "createBadgeDefinition", "award", "createPolicy"}

RequiredRoles(op) ==
    IF op \in {"createPublication", "updatePublication", "deletePublication"}
    THEN {"FACULTY", "HEAD_ADMIN"}
    ELSE IF op \in {"createBadgeDefinition", "award"}
    THEN {"FACULTY", "DEPT_ADMIN", "HEAD_ADMIN"}
    ELSE {"HEAD_ADMIN"}

\* C7: a request to a role-gated endpoint from an authenticated caller whose
\* role set does not intersect the required set is answered 403 and the
\* handler body never runs: no store call is made and no Publication,
\* BadgeDefinition, StudentBadge, Profile or BadgePolicy row is created or
\* changed.
C7_RoleGate ==
    [][ ( /\ req'.op \in GatedOps
          /\ req'.auth = "valid"
          /\ req'.roles \cap RequiredRoles(req'.op) = {} )
        => ( /\ resp'.status = 403
             /\ calls' = <<>>
             /\ UNCHANGED <<publications, badgeDefinitions, studentBadges,
                            profiles, badgePolicies>> ) ]_vars

\* a faculty member, who may award badges, was refused the creation of a
\* policy
C7_Witness ==
    /\ req.op = "createPolicy"
    /\ req.auth = "valid"
    /\ req.roles = {"FACULTY"}
    /\ resp.status = 403
    /\ badgePolicies = EmptyTable

-----------------------------------------------------------------------------
(* Properties of the enrichment read *)

\* a step that is an enrichment read passing requireAuth
ReadStep ==
    /\ req'.op \in {"getMyProfile", "getUserProfile"}
    /\ req'.auth = "valid"

StoreUnchanged ==
    UNCHANGED <<profiles, personalProjects, publications, experiences,
                badgeDefinitions, studentBadges, badgePolicies,
                badgeEligibilityCache>>

\* C8: when the user fetch times out, errors or returns non-2xx, the
\* enrichment read still answers 200 with the stored profile fields (empty
\* ones when no profile is stored), empty identity fields, and writes nothing
\* to the store.
C8_ReadSurvivesGatewayFailure ==
    [][ (ReadStep /\ req'.gw.kind = "error")
        => LET userId == req'.userId
               stored == userId \in DOMAIN profiles
           IN  /\ resp'.status = 200
               /\ StoreUnchanged
               /\ resp'.profile.displayName = ""
               /\ resp'.profile.collegeId = ""
               /\ resp'.profile.collegeName = Null
               /\ resp'.profile.name =
                      (IF stored /\ profiles[userId].name # Null
                       THEN profiles[userId].name ELSE "")
               /\ resp'.profile.bio =
                      (IF stored /\ profiles[userId].bio # Null
                       THEN profiles[userId].bio ELSE "")
               /\ resp'.profile.skills =
                      (IF stored THEN profiles[userId].skills ELSE <<>>) ]_vars

\* a read answered with the stored name and bio while the gateway was down
C8_Witness ==
    /\ req.op \in {"getMyProfile", "getUserProfile"}
    /\ req.auth = "valid"
    /\ req.gw.kind = "error"
    /\ resp.status = 200
    /\ req.userId \in DOMAIN profiles
    /\ profiles[req.userId].name = "Zed"
    /\ resp.profile.name = "Zed"
    /\ resp.profile.bio = "hello"
    /\ resp.profile.displayName = ""

\* C9: an enrichment read of a user without Profile row, with a gateway that
\* returns a display name d1, creates the Profile with name d1 and empty
\* skills and expertise; an enrichment read of a user whose stored name is
\* not empty returns that name and leaves the store unchanged, whatever
\* display name the gateway returns then.
C9_BackfillOnce ==
    [][ ReadStep
        => LET userId == req'.userId
               d == IF req'.gw.kind = "user" THEN req'.gw.displayName ELSE Null
           IN  /\ (userId \notin DOMAIN profiles /\ d \in DisplayNames)
                  => ( /\ userId \in DOMAIN profiles'
                       /\ profiles'[userId] =
                              [name |-> d, bio |-> Null, skills |-> <<>>,
                               expertise |-> <<>>]
                       /\ resp'.profile.name = d )
               /\ ( /\ userId \in DOMAIN profiles
                    /\ profiles[userId].name \notin {Null, ""} )
                  => ( /\ profiles' = profiles
                       /\ resp'.profile.name = profiles[userId].name ) ]_vars

\* a later read of u2, whose profile the first read created with the name
\* Asha, came back with Asha although the gateway now says Ravi
C9_Witness ==
    /\ req.op \in {"getMyProfile", "getUserProfile"}
    /\ req.auth = "valid"
    /\ req.userId = "u2"
    /\ req.gw.kind = "user"
    /\ req.gw.displayName = "Ravi"
    /\ seen # <<>>
    /\ seen[1] = [name |-> "Asha", bio |-> Null, skills |-> <<>>,
                  expertise |-> <<>>]
    /\ profiles["u2"] = seen[1]
    /\ resp.profile.name = "Asha"

-----------------------------------------------------------------------------
(* Properties of the skills sub-resource *)

\* the stored skills list of a user before the step
StoredSkills(userId) ==
    IF userId \in DOMAIN profiles THEN profiles[userId].skills ELSE <<>>

\* a step that is a skill addition passing requireAuth
AddSkillStep == req'.op = "addSkill" /\ req'.auth = "valid"

\* a step that is a skill removal passing requireAuth
RemoveSkillStep == req'.op = "removeSkill" /\ req'.auth = "valid"

\* C11: adding a skill that, after trimming, equals an entry of the user's
\* stored skills list ignoring case is rejected with 400 and the stored list
\* is left unchanged.
C11_DuplicateSkillRejected ==
    [][ ( /\ AddSkillStep
          /\ \E i \in DOMAIN StoredSkills(req'.caller) :
                ToLowerCase(StoredSkills(req'.caller)[i])
                    = ToLowerCase(TrimSkill(req'.skill)) )
        => (resp'.status = 400 /\ profiles' = profiles) ]_vars

\* "go" was refused because "Go" is stored
C11_Witness ==
    /\ req.op = "addSkill"
    /\ req.auth = "valid"
    /\ req.skill = GoLower
    /\ resp.status = 400
    /\ resp.message = "Skill already exists"
    /\ req.caller \in DOMAIN profiles
    /\ Go \in Range(profiles[req.caller].skills)
    /\ GoLower \notin Range(profiles[req.caller].skills)

\* C12: adding a skill to a stored list of 50 entries is rejected with 400
\* and the list is left unchanged; an addition that succeeds leaves the list
\* as it was with exactly one entry, the trimmed skill, appended at the end.
C12_SkillLimit ==
    [][ AddSkillStep
        => LET before == StoredSkills(req'.caller)
           IN  /\ Len(before) = 50
                  => (resp'.status = 400 /\ profiles' = profiles)
               /\ resp'.status = 200
                  => ( /\ req'.caller \in DOMAIN profiles'
                       /\ Len(profiles'[req'.caller].skills) = Len(before) + 1
                       /\ SubSeq(profiles'[req'.caller].skills, 1, Len(before))
                              = before
                       /\ profiles'[req'.caller].skills[Len(before) + 1]
                              = TrimSkill(req'.skill)
                       /\ resp'.skills = profiles'[req'.caller].skills ) ]_vars

\* the fiftieth skill was added and the fifty-first refused
C12_Witness ==
    /\ req.op = "addSkill"
    /\ req.auth = "valid"
    /\ req.skill = Rust
    /\ resp.status = 400
    /\ resp.message = "Maximum 50 skills allowed"
    /\ Len(profiles[req.caller].skills) = 50
    /\ profiles[req.caller].skills[50] = Go

\* C13 as stated: removing a skill that is not an entry of the user's stored
\* skills list answers 200 with the list as it was and changes nothing in the
\* store.
C13_RemoveAbsentSkillNoOp ==
    [][ ( /\ RemoveSkillStep
          /\ req'.skill \notin Range(StoredSkills(req'.caller)) )
        => ( /\ resp'.status = 200
             /\ resp'.skills = StoredSkills(req'.caller)
             /\ profiles' = profiles ) ]_vars

-----------------------------------------------------------------------------
(* Properties of the profile update *)

\* the last request was a PUT /v1/profile/me that succeeded
ProfileUpdated ==
    /\ req.op = "updateMyProfile"
    /\ req.auth = "valid"
    /\ resp.status = 200

\* C14 as stated: a GET /v1/profile/me by the same user right after a
\* successful PUT /v1/profile/me returns, for every profile field the PUT
\* carried (name, bio, skills, expertise, ...), the value that was sent.
C14_PutGetRoundTrip ==
    [][ ( /\ ProfileUpdated
          /\ req'.op = "getMyProfile"
          /\ req'.auth = "valid"
          /\ req'.userId = req.caller )
        => ( /\ resp'.status = 200
             /\ \A f \in DOMAIN req.body \cap
                         {"name", "bio", "skills", "expertise"} :
                    /\ f \in DOMAIN resp'.profile
                    /\ resp'.profile[f] = req.body[f] ) ]_vars

\* C15: a successful PUT /v1/profile/me writes the fields its body carries
\* and leaves every other stored field of the profile as it was (the value a
\* new profile starts with when the user had none): skills and expertise are
\* not reset by an update that omits them; no other profile changes.
C15_PartialUpdate ==
    [][ ( /\ req'.op = "updateMyProfile"
          /\ req'.auth = "valid"
          /\ resp'.status = 200 )
        => LET caller == req'.caller
               body == req'.body
               prior == IF caller \in DOMAIN profiles THEN profiles[caller]
                        ELSE [name |-> Null, bio |-> Null, skills |-> <<>>,
                              expertise |-> <<>>]
           IN  /\ caller \in DOMAIN profiles'
               /\ \A f \in {"name", "bio", "skills", "expertise"} :
                      IF f \in DOMAIN body
                      THEN profiles'[caller][f] = body[f]
                      ELSE profiles'[caller][f] = prior[f]
               /\ \A u \in DOMAIN profiles \ {caller} :
                      u \in DOMAIN profiles' /\ profiles'[u] = profiles[u]
      ]_vars

\* an update of the bio alone left the stored name, skills and expertise
C15_Witness ==
    /\ ProfileUpdated
    /\ DOMAIN req.body = {"bio"}
    /\ profiles[req.caller].bio = "hello"
    /\ profiles[req.caller].name = "Zed"
    /\ profiles[req.caller].skills # <<>>
    /\ profiles[req.caller].expertise # <<>>

-----------------------------------------------------------------------------
(* Properties of the award handler when the gateway is unavailable *)

\* the gateway call failed for a reason other than not-found: a timeout or
\* network error (status 0) or a non-2xx status other than 404
GatewayUnavailable(gw) == gw.kind = "error" /\ gw.status # 404

\* C16: when the award handler's gateway call fails for a reason other than
\* not-found, the request is answered with an error that is not 404 (500),
\* no StudentBadge row and no Profile row is created and no notification is
\* emitted.
C16_AwardGatewayUnavailable ==
    [][ (AwardStep /\ GatewayUnavailable(req'.gw))
        => ( /\ resp'.status = 500
             /\ resp'.status # 404
             /\ studentBadges' = studentBadges
             /\ profiles' = profiles
             /\ "feed.post" \notin Range(calls')
             /\ calls' = <<>> ) ]_vars

\* an award to u2, who has no profile, met a gateway time-out
C16_Witness ==
    /\ req.op = "award"
    /\ req.auth = "valid"
    /\ req.roles = {"FACULTY"}
    /\ req.gw.kind = "error"
    /\ req.gw.status = 0
    /\ req.body.userId = "u2"
    /\ req.post = "created"
    /\ resp.status = 500
    /\ "u2" \notin DOMAIN profiles
    /\ Len(studentBadges) = Len(SeedAwards)

-----------------------------------------------------------------------------
(* Properties of the eligibility check that resolves no college *)

\* the gateway answered, and its answer carries no college for the user
NoCollege(gw) ==
    /\ gw.kind # "error"
    /\ (gw.kind = "user" => gw.collegeId \in {Null, ""})

\* C17: an eligibility check for a user whose identity record carries no
\* college answers a failure (400) with canCreate = false and an empty
\* missing list and writes no cache row; a check whose gateway call errors
\* answers a different failure (500), also with canCreate = false.
C17_NoCollegeOutcome ==
    [][ EligibilityStep
        => /\ NoCollege(req'.gw)
              => ( /\ resp'.status = 400
                   /\ resp'.canCreate = FALSE
                   /\ resp'.missing = <<>>
                   /\ badgeEligibilityCache' = badgeEligibilityCache
                   /\ "badgeEligibilityCache.upsert" \notin Range(calls') )
           /\ req'.gw.kind = "error"
              => ( /\ resp'.status = 500
                   /\ resp'.canCreate = FALSE
                   /\ resp'.error # "User college information not found" )
      ]_vars

\* a check of a user without college was refused and left no cache row
C17_Witness ==
    /\ EligibilityAnswered
    /\ req.gw.kind = "user"
    /\ req.gw.collegeId = Null
    /\ resp.status = 400
    /\ resp.error = "User college information not found"
    /\ resp.missing = <<>>
    /\ req.userId \notin DOMAIN badgeEligibilityCache

-----------------------------------------------------------------------------
(* Properties of the eligibility cache across a policy change *)

\* the policy the store holds for the college the gateway reports
PolicyInForce(gw) ==
    IF gw.collegeId \in DOMAIN badgePolicies
    THEN <<badgePolicies[gw.collegeId].eventCreationRequired,
           badgePolicies[gw.collegeId].categoryDiversityMin>>
    ELSE <<8, 4>>

\* C18 as stated: creating a BadgePolicy changes no cache row; an eligibility
\* check made after the policy was created and before the row's expiresAt
\* returns the row's canCreate; the first check at or after expiresAt computes
\* with the new policy.
C18_PolicyChangeKeepsCache ==
    [][ /\ req'.op = "createPolicy"
           => badgeEligibilityCache' = badgeEligibilityCache
        /\ (req.op = "createPolicy" /\ resp.status = 201 /\ EligibilityStep)
           => IF UnexpiredRow(req'.userId)
              THEN /\ resp'.status = 200
                   /\ resp'.canCreate
                          = badgeEligibilityCache[req'.userId].canCreate
                   /\ badgeEligibilityCache' = badgeEligibilityCache
              ELSE CollegeResolved
                   => /\ resp'.status = 200
                      /\ <<resp'.requiredBadges, resp'.requiredCategories>>
                             = PolicyInForce(req'.gw) ]_vars

-----------------------------------------------------------------------------
(* Referential integrity of the rows that hang off a profile *)

\* every sub-entity row and every award refers to a user who has a profile
RowsHaveProfile ==
    /\ \A id \in DOMAIN personalProjects :
           personalProjects[id].userId \in DOMAIN profiles
    /\ \A id \in DOMAIN publications :
           publications[id].userId \in DOMAIN profiles
    /\ \A id \in DOMAIN experiences :
           experiences[id].userId \in DOMAIN profiles
    /\ \A i \in DOMAIN studentBadges :
           studentBadges[i].studentId \in DOMAIN profiles

\* C20: in every reachable state each PersonalProject, Publication,
\* Experience and StudentBadge row refers to a userId for which a Profile row
\* exists, and no step removes a Profile row.
C20_RowsReferToProfiles ==
    /\ [] RowsHaveProfile
    /\ [][ \A u \in DOMAIN profiles : u \in DOMAIN profiles' ]_vars

\* u2, who had no profile, created a row: the profile was created with it,
\* with empty skills and expertise
C20_Witness ==
    /\ req.op = "createProject"
    /\ req.caller = "u2"
    /\ resp.status = 201
    /\ "u2" \in DOMAIN profiles
    /\ profiles["u2"] = EmptyProfile
    /\ \E id \in DOMAIN personalProjects : personalProjects[id].userId = "u2"

-----------------------------------------------------------------------------
(* Uniqueness of the keyed rows under interleaved writes *)

-----------------------------------------------------------------------------
(* Properties of the award table *)

\* C21: StudentBadge rows are append-only: whatever operation of the service
\* takes a step, every award row that exists keeps its position (its id) and
\* all its fields and none is removed, so the awards of a user only grow.
C21_AwardsAppendOnly ==
    [][ /\ Len(studentBadges') >= Len(studentBadges)
        /\ \A i \in DOMAIN studentBadges :
              studentBadges'[i] = studentBadges[i] ]_vars

\* an award was made on top of the seeded rows, to the student and of the
\* badge of a seeded row, and another operation has acted since
C21_Witness ==
    /\ Len(studentBadges) > Len(SeedAwards)
    /\ studentBadges[Len(studentBadges)].studentId = "u1"
    /\ studentBadges[Len(studentBadges)].badgeId = 1
    /\ studentBadges[Len(studentBadges)].awardedBy = "u1"
    /\ SubSeq(studentBadges, 1, Len(SeedAwards)) = SeedAwards
    /\ req.op = "deleteProject"
    /\ resp.status = 204

\* C29 as stated: an award request that is not answered 201 leaves the store
\* as it was: no StudentBadge row and no Profile row is created, also when the
\* insert of the award is refused after the target's profile was ensured.
C29_FailedAwardLeavesStore ==
    [][ (req'.op = "award" /\ resp'.status # 201) => StoreUnchanged ]_vars

-----------------------------------------------------------------------------
(* Properties of the award handler towards the eligibility cache *)

\* C28 as stated: an award request creates, changes or removes no cache row,
\* and an eligibility check of the recipient that follows a successful award
\* while the recipient's cache row has not expired returns the badgeCount,
\* categories and canCreate of that row.
C28_AwardKeepsCache ==
    [][ /\ req'.op = "award"
           => badgeEligibilityCache' = badgeEligibilityCache
        /\ ( /\ req.op = "award"
             /\ resp.status = 201
             /\ EligibilityStep
             /\ req'.userId = req.body.userId
             /\ UnexpiredRow(req'.userId) )
           => /\ resp'.status = 200
              /\ resp'.badgeCount
                     = badgeEligibilityCache[req'.userId].badgeCount
              /\ resp'.categories
                     = badgeEligibilityCache[req'.userId].categories
              /\ resp'.canCreate
                     = badgeEligibilityCache[req'.userId].canCreate ]_vars

-----------------------------------------------------------------------------
(* Properties of the stored skills list under every operation that writes it *)

\* C25 as stated: in every reachable state the skills list of every Profile
\* has at most 50 entries, whichever of the two profile updates and the three
\* skills operations produced it.
C25_SkillsAtMostFifty ==
    \A u \in DOMAIN profiles : Len(profiles[u].skills) <= MaxSkills

\* C26 as stated: in every reachable state no skills list of a Profile holds
\* two entries that are equal ignoring case.
C26_SkillsDistinctIgnoringCase ==
    \A u \in DOMAIN profiles :
        \A i, j \in DOMAIN profiles[u].skills :
            ToLowerCase(profiles[u].skills[i])
                = ToLowerCase(profiles[u].skills[j]) => i = j

-----------------------------------------------------------------------------
(* Properties of concurrent requests *)

\* C27 as stated: when two requests of the same user that add two different
\* new skills have both been answered 200, the stored list holds both skills,
\* however their look-ups and upserts were interleaved.
C27_ConcurrentAddsBothStored ==
    \A a, b \in Answered("addSkill") :
        (a.status = 200 /\ b.status = 200 /\ a.caller = b.caller
         /\ a.skill # b.skill)
        => {a.skill, b.skill} \subseteq Range(StoredSkills(a.caller))

\* C30 as stated: no delete of a sub-entity ends in an unhandled store error,
\* and of two deletes of one row whose ownership checks both found the row,
\* exactly one is answered with success and the other with 404.
C30_ConcurrentDeletes ==
    \A a \in Answered("delete") :
        /\ a.status \in {DeletedStatus(a.table), 404}
        /\ a.found => CopiesIn(a, inflight) = 1
        /\ \A b \in Answered("delete") \ {a} :
              (a.found /\ b.found /\ a.table = b.table /\ a.id = b.id)
              => {a.status, b.status} = {DeletedStatus(a.table), 404}

\* the names a PUT /v1/profile/me can write; the gateway's display names are
\* other strings
PutNames ==
    {body.name : body \in {b \in UpdateBodies :
                              "name" \in DOMAIN b /\ b.name # ""}}

\* C24 as stated: a non-empty name written through PUT /v1/profile/me is
\* replaced by nothing but another PUT: no step of an enrichment read changes
\* it, however the read's initial fetch, the PUT and the read's backfill
\* upsert are interleaved.
C24_BackfillKeepsUserName ==
    [][ \A u \in DOMAIN profiles :
          (profiles[u].name \in PutNames /\ req'.op # "updateMyProfile")
          => (u \in DOMAIN profiles'
              /\ profiles'[u].name = profiles[u].name) ]_vars

\* the eligibility checks of a user that recomputed and have been answered
Recomputations(userId) ==
    {r \in Answered("eligibility") : r.userId = userId /\ r.order > 0}

EligibilityResult(r) == <<r.canCreate, r.badgeCount, r.categories>>

CachedResult(userId) ==
    <<badgeEligibilityCache[userId].canCreate,
      badgeEligibilityCache[userId].badgeCount,
      badgeEligibilityCache[userId].categories>>

\* the upsert of the request was the last one on the user's row
LastUpsert(r) == \A c \in Recomputations(r.userId) : c.order <= r.order

\* two recomputations of a user resolved to the same college, with the same
\* awards, catalog and policies in the store from the arrival of each to its
\* upsert
SameBasis(a, b) ==
    /\ a.userId = b.userId
    /\ a.gw.collegeId = b.gw.collegeId
    /\ a.basis = b.basis
    /\ a.stable
    /\ b.stable

AwaitsGateway(op) == \E r \in Requests : r.op = op /\ r.pc = "gateway"

\* C23 as stated: every request whose handler calls the Identity Gateway is
\* eventually answered, also when the gateway never replies: each call is
\* bounded by a timeout after which the handler goes on.
C23_GatewayCallsBounded ==
    \A site \in GatewayCalls :
        AwaitsGateway(site.op) ~> ~AwaitsGateway(site.op)

====
